---- MODULE Spec2Model ----
(***************************************************************************)
(* The AI gateway.                                                         *)
(* Spec: the bearer-token authentication gate                              *)
(*   api/middleware/auth.rs            authenticate                         *)
(*   infrastructure/.../project_repo.rs find_by_api_key, find_by_id         *)
(*   shared/utils/encryption.rs        EncryptionService::decrypt           *)
(*   shared/error.rs                   AppError -> HTTP response            *)
(* TranscribeSpec, TranscribeFairSpec: transcription requests              *)
(*   domain/services/transcription.rs  transcribe, log_usage                *)
(*   domain/services/llm_api_key.rs    get_decrypted_key                    *)
(* GatewaySpec: a chat request beside a transcription request              *)
(*   api/handlers/chat.rs              create_chat_completion               *)
(*   domain/services/providers/openai.rs chat_completion                    *)
(* FnSpec: pure functions applied to bounded inputs                         *)
(*   shared/error.rs                   AppError::into_response              *)
(*   shared/utils/encryption.rs        encrypt, decrypt                     *)
(*   domain/services/providers/openai.rs calculate_openai_cost              *)
(* UploadSpec: the upload size check of api/handlers/transcription.rs      *)
(* TenantSpec: two projects' provider keys in one collection                *)
(* DeactivateSpec: deactivate_key beside transcription requests             *)
(* Strings are sequences of one-character strings, so that strip_prefix,    *)
(* trim, starts_with and the 9-character index prefix are computed.         *)
(***************************************************************************)
EXTENDS Integers, Sequences, FiniteSets, TLC

\* ------------------------------------------------------------------ bounds
\* number of records in the project_api_keys collection
NumKeys == 2
\* last value of the clock (chrono::Utc::now())
MaxTime == 1

\* Option<T>: None, or Some(x)
None == <<>>
Some(x) == <<x>>
IsSome(o) == o # <<>>
Get(o) == o[1]

\* ------------------------------------------------------------ string data
PK == <<"p", "k", "_">>
PrefixA == PK \o <<"a", "a", "a", "a", "a", "a">>
PrefixB == PK \o <<"b", "b", "b", "b", "b", "b">>
\* S1 and S2 share the 9-character index prefix, S3 has another one
S1 == PrefixA \o <<"1">>
S2 == PrefixA \o <<"2">>
S3 == PrefixB \o <<"1">>
\* a token that shares S1's prefix and is stored nowhere
S9 == PrefixA \o <<"9">>
\* a well-formed token shorter than the index prefix
SShort == PK \o <<"a">>
Bearer == <<"B", "e", "a", "r", "e", "r", " ">>

IsSpace(c) == c = " "

RECURSIVE TrimStart(_)
TrimStart(s) ==
    IF s # <<>> /\ IsSpace(Head(s)) THEN TrimStart(Tail(s)) ELSE s

RECURSIVE TrimEnd(_)
TrimEnd(s) ==
    IF s # <<>> /\ IsSpace(s[Len(s)]) THEN TrimEnd(SubSeq(s, 1, Len(s) - 1)) ELSE s

\* str::trim
Trim(s) == TrimEnd(TrimStart(s))

\* str::starts_with
StartsWith(s, p) == Len(s) >= Len(p) /\ SubSeq(s, 1, Len(p)) = p

\* str::strip_prefix : Some(the rest of s), or None
StripPrefix(s, p) ==
    IF StartsWith(s, p) THEN Some(SubSeq(s, Len(p) + 1, Len(s))) ELSE None

\* ------------------------------------------------------------------ vault
\* the key the EncryptionService was constructed with, and a foreign key
VaultKey == "K1"
OtherKey == "K2"
\* the key of a ciphertext that was altered: its tag verifies under no key
NoKey == "none"
\* sealed bytes that are no UTF-8 text
BadUtf8 == "\\xff"
NonceLen == 12

\* A stored blob: whether the text is valid base64, how many bytes it
\* decodes to before the ciphertext (the nonce), the key it was sealed
\* with and the plaintext inside.
Blob(b64, nonce, key, pt) == [b64 |-> b64, nonce |-> nonce, key |-> key, pt |-> pt]

Ok(v) == [ok |-> TRUE, val |-> v]
Err(kind, msg) == [ok |-> FALSE, kind |-> kind, msg |-> msg]

\* EncryptionService::decrypt
Decrypt(encrypted) ==
    IF ~encrypted.b64
    THEN Err("EncryptionError", <<"Invalid ciphertext">>)
    ELSE IF encrypted.nonce < NonceLen
    THEN Err("EncryptionError", <<"Ciphertext too short">>)
    ELSE IF encrypted.key # VaultKey
    THEN Err("EncryptionError", <<"Decryption failed">>)
    ELSE IF encrypted.pt = BadUtf8
    THEN Err("EncryptionError", <<"Invalid UTF-8">>)
    ELSE Ok(encrypted.pt)

EncryptShortNonce(plaintext) == Blob(TRUE, 8, VaultKey, plaintext)

\* EncryptionService::encrypt (the nonce is drawn fresh; only its length shows)
Encrypt(plaintext) == Blob(TRUE, NonceLen, VaultKey, plaintext)

\* ----------------------------------------------------------------- errors
ErrorKinds ==
    {"DatabaseError", "ValidationError", "NotFound", "AuthenticationError",
     "AuthorizationError", "RateLimitError", "ConfigError", "ExternalApiError",
     "EncryptionError", "InternalError", "BadRequest", "ServiceUnavailable"}

\* AppError's Display: the kind's prefix followed by the message
Display(e) ==
    CASE e.kind = "DatabaseError"       -> <<"Database error: ">> \o e.msg
      [] e.kind = "ValidationError"     -> <<"Validation error: ">> \o e.msg
      [] e.kind = "NotFound"            -> <<"Not found: ">> \o e.msg
      [] e.kind = "AuthenticationError" -> <<"Authentication error: ">> \o e.msg
      [] e.kind = "AuthorizationError"  -> <<"Authorization error: ">> \o e.msg
      [] e.kind = "RateLimitError"      -> <<"Rate limit exceeded: ">> \o e.msg
      [] e.kind = "ConfigError"         -> <<"Configuration error: ">> \o e.msg
      [] e.kind = "ExternalApiError"    -> <<"External API error: ">> \o e.msg
      [] e.kind = "EncryptionError"     -> <<"Encryption error: ">> \o e.msg
      [] e.kind = "InternalError"       -> <<"Internal error: ">> \o e.msg
      [] e.kind = "BadRequest"          -> <<"Bad request: ">> \o e.msg
      [] e.kind = "ServiceUnavailable"  -> <<"Service unavailable: ">> \o e.msg

StatusOf(kind) ==
    CASE kind \in {"ValidationError", "BadRequest"} -> 400
      [] kind = "AuthenticationError" -> 401
      [] kind = "AuthorizationError"  -> 403
      [] kind = "NotFound"            -> 404
      [] kind = "RateLimitError"      -> 429
      [] kind = "ServiceUnavailable"  -> 503
      [] kind = "ExternalApiError"    -> 502
      [] kind \in {"DatabaseError", "ConfigError", "EncryptionError", "InternalError"} -> 500

CodeOf(kind) ==
    CASE kind = "ValidationError"     -> "VALIDATION_ERROR"
      [] kind = "BadRequest"          -> "BAD_REQUEST"
      [] kind = "AuthenticationError" -> "AUTHENTICATION_ERROR"
      [] kind = "AuthorizationError"  -> "AUTHORIZATION_ERROR"
      [] kind = "NotFound"            -> "NOT_FOUND"
      [] kind = "RateLimitError"      -> "RATE_LIMIT_EXCEEDED"
      [] kind = "ServiceUnavailable"  -> "SERVICE_UNAVAILABLE"
      [] kind = "ExternalApiError"    -> "EXTERNAL_API_ERROR"
      [] kind \in {"DatabaseError", "ConfigError", "EncryptionError", "InternalError"} -> "INTERNAL_ERROR"

IntoResponseReadsMessage(e) ==
    [status |-> IF e.msg = <<"429">> THEN 429 ELSE StatusOf(e.kind),
     code |-> CodeOf(e.kind), message |-> Display(e)]

\* AppError::into_response : status, error code and the Display text
IntoResponse(e) ==
    [status |-> StatusOf(e.kind), code |-> CodeOf(e.kind), message |-> Display(e)]

\* ------------------------------------------------------------- collections
ProjectStatus == {"active", "inactive", "suspended", "archived", "deleted"}

\* project ids: P1 and P2 have a document, PMissing is a well-formed id
\* without one, PBad is text that is no ObjectId
P1 == "p1"
P2 == "p2"
PMissing == "p_missing"
PBad == "not-an-objectid"
HexIds == {P1, P2, PMissing}

\* ObjectId::parse_str
ParseObjectId(project_id) ==
    IF project_id \in HexIds
    THEN Ok(project_id)
    ELSE Err("BadRequest", <<"Invalid project ID format: ", "invalid character">>)

IsActiveNotDeleted(proj) == proj.status # "deleted"

\* Project::is_active
IsActive(proj) == proj.status = "active"

\* what the driver reports when an operation fails
DriverErrors == {"timeout", "connection reset"}

\* length of the index prefix: "pk_" and 6 characters
PrefixLen == 9

\* ProjectApiKey.key_prefix as the control plane stores it: the first 9
\* characters of the secret
StoredPrefix(secret) ==
    IF Len(secret) >= PrefixLen THEN SubSeq(secret, 1, PrefixLen) ELSE secret

KeyPrefixSeven(api_key) == IF Len(api_key) >= 7 THEN SubSeq(api_key, 1, 7) ELSE api_key

\* find_by_api_key's key_prefix of the presented token: its first 9
\* characters, or the whole token when it is shorter
KeyPrefix(api_key) ==
    IF Len(api_key) >= PrefixLen THEN SubSeq(api_key, 1, PrefixLen) ELSE api_key

\* the stored forms of a secret: sealed by the vault, or damaged
KeyHashes(secret) ==
    {Encrypt(secret),
     Blob(FALSE, NonceLen, VaultKey, secret),
     Blob(TRUE, 5, VaultKey, secret),
     Blob(TRUE, NonceLen, OtherKey, secret)}

\* expiry stamps of stored credentials: such a credential is valid at
\* time 0 and expired from time 1 on
ExpiryTimes == {0}

ProjectApiKey(id, owner, secret, hash, active, expires) ==
    [id |-> id, project_id |-> owner, key_hash |-> hash,
     key_prefix |-> StoredPrefix(secret), is_active |-> active,
     expires_at |-> expires, last_used_at |-> None]

\* The records position i of the collection may hold. A secret belongs to
\* one project: S1 to owner1, S2 to P2. A record departs from a sound
\* credential of S1 in at most one respect.
KeyDocs(i, owner1) ==
    {ProjectApiKey(i, owner1, S1, Encrypt(S1), TRUE, None),
     ProjectApiKey(i, P2, S2, Encrypt(S2), TRUE, None),
     ProjectApiKey(i, owner1, S1, Encrypt(S1), FALSE, None)}
    \cup {ProjectApiKey(i, owner1, S1, Encrypt(S1), TRUE, Some(t)) : t \in ExpiryTimes}
    \cup {ProjectApiKey(i, owner1, S1, h, TRUE, None) : h \in KeyHashes(S1) \ {Encrypt(S1)}}

\* --------------------------------------------------- provider credentials
\* number of transcription requests in flight together
NumRequests == 2

\* LlmProvider: the target of every transcription, and another one
Openai == "openai"
Anthropic == "anthropic"

\* key_id of the two stored provider credentials and of none
K1 == "k1"
K2 == "k2"
KMissing == "k_missing"

\* provider secrets
SK1 == "sk-1"
SK2 == "sk-2"

\* a document of the llm_api_keys collection, with the fields the gateway
\* reads, filters on or writes
LlmApiKey(key_id, project_id, provider, encrypted_key, is_active, is_default) ==
    [key_id |-> key_id, project_id |-> project_id, provider |-> provider,
     encrypted_key |-> encrypted_key, is_active |-> is_active,
     is_default |-> is_default, last_used_at |-> None]

\* The collections a run may start with. K1 is an OpenAI credential of P1:
\* its active default, a deactivated default, or active and not default.
\* K2 is P1's active default credential for Anthropic: sealed by a foreign
\* key, or (beside a deactivated K1) sealed by the vault.
LlmKeyStores ==
    {<<LlmApiKey(K1, P1, Openai, Encrypt(SK1), f[1], f[2]),
       LlmApiKey(K2, P1, Anthropic, Blob(TRUE, NonceLen, OtherKey, SK2), TRUE, TRUE)>> :
        f \in {<<TRUE, TRUE>>, <<FALSE, TRUE>>, <<TRUE, FALSE>>}}
    \cup {<<LlmApiKey(K1, P1, Openai, Encrypt(SK1), FALSE, TRUE),
            LlmApiKey(K2, P1, Anthropic, Encrypt(SK2), TRUE, TRUE)>>}

\* the uploaded file, and TranscriptionService::calculate_file_hash of it
AudioFile == "audio.wav"
CalculateFileHash(file_data) == <<"sha256", file_data>>

\* TranscriptionRequest.llm_api_key_id as clients send it
KeyIdInputs == {None, Some(K1), Some(K2), Some(KMissing)}

\* a transcription request that has not arrived
IdleRequest ==
    [pc |-> "idle", file_size |-> 0, llm_api_key_id |-> None, key_id |-> None,
     api_key |-> None, response |-> None, log |-> "none", history |-> None,
     trace |-> <<>>]

\* RateLimits::default's max_file_size_mb
DefaultMaxFileSizeMb == 25

\* bytes in a megabyte, as the size check counts them
MiB == 1048576

\* DefaultBodyLimit::max of the application: 25 * 1024 * 1024
BodyLimit == 26214400

\* create_chat_completion is not running
ChatIdle ==
    [pc |-> "idle", request |-> None, api_key |-> None, upstream |-> None,
     response |-> None, log |-> "none"]

VARIABLES
    project_api_keys,   \* the project_api_keys collection, in cursor order
    projects,           \* the projects collection: id -> document or None
    now,                \* chrono::Utc::now()
    pc,                 \* where the request in flight stands
    header,             \* its Authorization header
    api_key,            \* the bearer token extracted from it
    cursor,             \* candidates the cursor has yet to return
    keys_checked,       \* find_by_api_key's counter
    key_doc,            \* the candidate that matched
    last_used_write,    \* the update_one of last_used_at: state and stamp
    project,            \* the Project put into the request extensions
    handler_ran,        \* next.run(req) was called
    response,           \* the response sent
    db_faults,          \* repository operations that failed in this request
    started_at,         \* the clock when the request arrived
    llm_api_keys,           \* the llm_api_keys collection, in document order
    transcription_history,  \* the transcription_history collection, in insertion order
    requests,               \* the transcription requests: id -> where each stands
    mark_used_tasks,        \* key_id -> spawned mark_used tasks that have not run yet
    max_file_size_mb,       \* rate_limits.max_file_size_mb of the authenticated project
    chat,                   \* the call of create_chat_completion in flight
    fn_call                 \* the last call of a pure function: input and output

auth_vars ==
    <<project_api_keys, projects, now, pc, header, api_key, cursor, keys_checked,
      key_doc, last_used_write, project, handler_ran, response, db_faults, started_at>>

transcribe_vars ==
    <<llm_api_keys, transcription_history, requests, mark_used_tasks, max_file_size_mb>>

beyond_auth == <<transcribe_vars, chat, fn_call>>

vars == <<auth_vars, transcribe_vars, chat, fn_call>>

store == <<project_api_keys, projects>>
request ==
    <<header, api_key, cursor, keys_checked, key_doc, last_used_write, project,
      handler_ran, response, db_faults, started_at>>

NoWrite == [state |-> "none", at |-> 0]
NoHeader == [present |-> FALSE, ascii |-> TRUE, text |-> <<>>]

\* nothing beyond the authentication gate is running
TranscribeQuiet ==
    /\ llm_api_keys \in LlmKeyStores
    /\ llm_api_keys[1].is_active /\ llm_api_keys[1].is_default
    /\ transcription_history = <<>>
    /\ requests = [r \in 1 .. NumRequests |-> IdleRequest]
    /\ mark_used_tasks = [k \in {K1, K2} |-> 0]
    /\ max_file_size_mb = DefaultMaxFileSizeMb

ChatQuiet == chat = ChatIdle

FnQuiet == fn_call = None

Init ==
    /\ \E owner1 \in {P1, PMissing, PBad} :
       \E status1 \in (IF owner1 = P1 THEN ProjectStatus ELSE {"active"}) :
          /\ project_api_keys \in
                {ks \in [1 .. NumKeys -> UNION {KeyDocs(i, owner1) : i \in 1 .. NumKeys}] :
                    \A i \in 1 .. NumKeys : ks[i].id = i}
          /\ projects = [p \in HexIds |->
                CASE p = P1 -> Some([id |-> P1, status |-> status1])
                  [] p = P2 -> Some([id |-> P2, status |-> "active"])
                  [] OTHER  -> None]
    /\ now = 0
    /\ pc = "idle"
    /\ header = NoHeader
    /\ api_key = <<>>
    /\ cursor = <<>>
    /\ keys_checked = 0
    /\ key_doc = None
    /\ last_used_write = NoWrite
    /\ project = None
    /\ handler_ran = FALSE
    /\ response = None
    /\ db_faults = {}
    /\ started_at = 0
    /\ TranscribeQuiet
    /\ ChatQuiet
    /\ FnQuiet

\* ------------------------------------------------------------ the request
\* Authorization headers a client may send: none, bytes that are not
\* visible ASCII, and texts
Tokens == {S1, S2, S3, S9, SShort}

HeaderTexts ==
    {Bearer \o t : t \in Tokens}
    \cup {Bearer \o <<" ">> \o S1 \o <<" ">>,
          Bearer,
          Bearer \o <<" ", " ">>,
          Bearer \o <<"s", "k", "_">> \o <<"a", "a", "a", "a", "a", "a", "1">>,
          <<"B", "a", "s", "i", "c", " ">> \o S1,
          <<"b", "e", "a", "r", "e", "r", " ">> \o S1,
          S1}

Headers ==
    {NoHeader, [present |-> TRUE, ascii |-> FALSE, text |-> <<>>]}
    \cup {[present |-> TRUE, ascii |-> TRUE, text |-> t] : t \in HeaderTexts}

ExtractApiKeyAnyFormat(h) ==
    IF ~h.present \/ ~h.ascii
    THEN Err("AuthenticationError", <<"Missing Authorization header">>)
    ELSE IF StripPrefix(h.text, Bearer) = None
    THEN Err("AuthenticationError", <<"Invalid Authorization header format">>)
    ELSE LET key == Trim(Get(StripPrefix(h.text, Bearer))) IN
         IF key = <<>>
         THEN Err("AuthenticationError", <<"Empty API key">>)
         ELSE Ok(key)

\* authenticate, up to the repository call: the bearer token or the error
ExtractApiKey(h) ==
    IF ~h.present \/ ~h.ascii
    THEN Err("AuthenticationError", <<"Missing Authorization header">>)
    ELSE IF StripPrefix(h.text, Bearer) = None
    THEN Err("AuthenticationError", <<"Invalid Authorization header format">>)
    ELSE LET key == Trim(Get(StripPrefix(h.text, Bearer))) IN
         IF key = <<>>
         THEN Err("AuthenticationError", <<"Empty API key">>)
         ELSE IF ~StartsWith(key, PK)
         THEN Err("AuthenticationError", <<"Invalid API key format">>)
         ELSE Ok(key)

Reject(e) ==
    /\ response' = Some(IntoResponse(e))
    /\ pc' = "done"

\* a request arrives and authenticate reads its header
Receive ==
    /\ pc = "idle"
    /\ \E h \in Headers :
        /\ header' = h
        /\ started_at' = now
        /\ LET r == ExtractApiKey(h) IN
           IF r.ok
           THEN /\ api_key' = r.val
                /\ pc' = "query"
                /\ UNCHANGED response
           ELSE /\ Reject(r)
                /\ UNCHANGED api_key
    /\ UNCHANGED <<store, now, cursor, keys_checked, key_doc, last_used_write,
                   project, handler_ran, db_faults>>
    /\ UNCHANGED beyond_auth

QueryFilterAnyState(doc, key_prefix) == doc.key_prefix = key_prefix

\* the filter of find_by_api_key's query
QueryFilter(doc, key_prefix) == doc.is_active /\ doc.key_prefix = key_prefix

\* find_by_api_key: the query by index prefix
Query ==
    /\ pc = "query"
    /\ \/ /\ cursor' = SelectSeq(project_api_keys,
                                 LAMBDA d : QueryFilter(d, KeyPrefix(api_key)))
          /\ pc' = "scan"
          /\ UNCHANGED <<response, db_faults>>
       \/ \E e \in DriverErrors :
          /\ Reject(Err("InternalError", <<"Failed to query project API keys: ", e>>))
          /\ db_faults' = db_faults \cup {"find"}
          /\ UNCHANGED cursor
    /\ UNCHANGED <<store, now, header, api_key, keys_checked, key_doc, last_used_write,
                   project, handler_ran, started_at>>
    /\ UNCHANGED beyond_auth

Expired(doc, t) == IsSome(doc.expires_at) /\ t > Get(doc.expires_at)

ExamineNoExpiry(doc, key, t) ==
    LET d == Decrypt(doc.key_hash) IN
    IF ~d.ok THEN "undecryptable"
    ELSE IF d.val = key THEN "match" ELSE "mismatch"

ExaminePrefixOnly(doc, key, t) ==
    IF Expired(doc, t) THEN "expired"
    ELSE LET d == Decrypt(doc.key_hash) IN
         IF ~d.ok THEN "undecryptable"
         ELSE IF KeyPrefix(d.val) = KeyPrefix(key) THEN "match" ELSE "mismatch"

\* the body of find_by_api_key's loop for one candidate
Examine(doc, key, t) ==
    IF Expired(doc, t) THEN "expired"
    ELSE LET d == Decrypt(doc.key_hash) IN
         IF ~d.ok THEN "undecryptable"
         ELSE IF d.val = key THEN "match" ELSE "mismatch"

NoMatchDisclosesCount(checked) ==
    Err("AuthenticationError", <<"Invalid API key", checked>>)

\* find_by_api_key's error once the cursor is exhausted
NoMatch(checked) == Err("AuthenticationError", <<"Invalid API key">>)

AfterUpdateIssuedDetached == "find_project"

\* where find_by_api_key stands once update_one is issued: at its .await
AfterUpdateIssued == "mark_wait"

ScanAbortsOnCorrupt ==
    /\ pc = "scan"
    /\ \/ \E e \in DriverErrors :
          /\ Reject(Err("InternalError", <<"Database cursor error: ", e>>))
          /\ db_faults' = db_faults \cup {"cursor"}
          /\ UNCHANGED <<cursor, keys_checked, key_doc, last_used_write>>
       \/ /\ cursor = <<>>
          /\ Reject(NoMatch(keys_checked))
          /\ UNCHANGED <<cursor, keys_checked, key_doc, last_used_write, db_faults>>
       \/ /\ cursor # <<>>
          /\ cursor' = Tail(cursor)
          /\ keys_checked' = keys_checked + 1
          /\ LET verdict == Examine(Head(cursor), api_key, now) IN
             IF verdict = "match"
             THEN /\ key_doc' = Some(Head(cursor))
                  /\ last_used_write' = [state |-> "pending", at |-> now]
                  /\ pc' = AfterUpdateIssued
                  /\ UNCHANGED response
             ELSE IF verdict = "undecryptable"
             THEN /\ Reject(Decrypt(Head(cursor).key_hash))
                  /\ UNCHANGED <<key_doc, last_used_write>>
             ELSE UNCHANGED <<key_doc, last_used_write, pc, response>>
          /\ UNCHANGED db_faults
    /\ UNCHANGED <<store, now, header, api_key, project, handler_ran, started_at>>
    /\ UNCHANGED beyond_auth

\* find_by_api_key: one turn of the loop over the cursor; on a match the
\* update_one of the key's last_used_at is issued
Scan ==
    /\ pc = "scan"
    /\ \/ \E e \in DriverErrors :
          /\ Reject(Err("InternalError", <<"Database cursor error: ", e>>))
          /\ db_faults' = db_faults \cup {"cursor"}
          /\ UNCHANGED <<cursor, keys_checked, key_doc, last_used_write>>
       \/ /\ cursor = <<>>
          /\ Reject(NoMatch(keys_checked))
          /\ UNCHANGED <<cursor, keys_checked, key_doc, last_used_write, db_faults>>
       \/ /\ cursor # <<>>
          /\ cursor' = Tail(cursor)
          /\ keys_checked' = keys_checked + 1
          /\ LET verdict == Examine(Head(cursor), api_key, now) IN
             IF verdict = "match"
             THEN /\ key_doc' = Some(Head(cursor))
                  /\ last_used_write' = [state |-> "pending", at |-> now]
                  /\ pc' = AfterUpdateIssued
                  /\ UNCHANGED response
             ELSE UNCHANGED <<key_doc, last_used_write, pc, response>>
          /\ UNCHANGED db_faults
    /\ UNCHANGED <<store, now, header, api_key, project, handler_ran, started_at>>
    /\ UNCHANGED beyond_auth

SetLastUsedAtEveryKey(keys, id, at) ==
    [i \in DOMAIN keys |-> [keys[i] EXCEPT !.last_used_at = Some(at)]]

\* update_one's $set on the document with the given _id
SetLastUsedAt(keys, id, at) ==
    [i \in DOMAIN keys |->
        IF keys[i].id = id THEN [keys[i] EXCEPT !.last_used_at = Some(at)] ELSE keys[i]]

UpdateCompletesPropagates ==
    /\ last_used_write.state = "pending"
    /\ \/ /\ project_api_keys' = SetLastUsedAt(project_api_keys, Get(key_doc).id, last_used_write.at)
          /\ last_used_write' = [last_used_write EXCEPT !.state = "ok"]
          /\ pc' = IF pc = "mark_wait" THEN "find_project" ELSE pc
          /\ UNCHANGED <<db_faults, response>>
       \/ /\ last_used_write' = [last_used_write EXCEPT !.state = "failed"]
          /\ db_faults' = db_faults \cup {"update"}
          /\ Reject(Err("InternalError", <<"Failed to update last_used_at">>))
          /\ UNCHANGED project_api_keys
    /\ UNCHANGED <<projects, now, header, api_key, cursor, keys_checked, key_doc,
                   project, handler_ran, started_at>>
    /\ UNCHANGED beyond_auth

\* the database answers the update_one; an Err is logged and dropped
UpdateCompletes ==
    /\ last_used_write.state = "pending"
    /\ \/ /\ project_api_keys' = SetLastUsedAt(project_api_keys, Get(key_doc).id, last_used_write.at)
          /\ last_used_write' = [last_used_write EXCEPT !.state = "ok"]
          /\ pc' = IF pc = "mark_wait" THEN "find_project" ELSE pc
          /\ UNCHANGED <<db_faults, response>>
       \/ /\ last_used_write' = [last_used_write EXCEPT !.state = "failed"]
          /\ db_faults' = db_faults \cup {"update"}
          /\ pc' = IF pc = "mark_wait" THEN "find_project" ELSE pc
          /\ UNCHANGED <<project_api_keys, response>>
    /\ UNCHANGED <<projects, now, header, api_key, cursor, keys_checked, key_doc,
                   project, handler_ran, started_at>>
    /\ UNCHANGED beyond_auth

\* find_by_api_key's find_by_id of the owning project, then authenticate's
\* check of the project and the call of the handler
FindProject ==
    /\ pc = "find_project"
    /\ LET parsed == ParseObjectId(Get(key_doc).project_id) IN
       IF ~parsed.ok
       THEN /\ Reject(parsed)
            /\ UNCHANGED <<project, handler_ran, db_faults>>
       ELSE \/ \E e \in DriverErrors :
               /\ Reject(Err("InternalError", <<"Failed to query project: ", e>>))
               /\ db_faults' = db_faults \cup {"find_one"}
               /\ UNCHANGED <<project, handler_ran>>
            \/ /\ projects[parsed.val] = None
               /\ Reject(Err("NotFound", <<"Project ", Get(key_doc).project_id, " not found">>))
               /\ UNCHANGED <<project, handler_ran, db_faults>>
            \/ /\ projects[parsed.val] # None
               /\ ~IsActive(Get(projects[parsed.val]))
               /\ Reject(Err("AuthorizationError", <<"Project is not active">>))
               /\ UNCHANGED <<project, handler_ran, db_faults>>
            \/ /\ projects[parsed.val] # None
               /\ IsActive(Get(projects[parsed.val]))
               /\ project' = projects[parsed.val]
               /\ handler_ran' = TRUE
               /\ pc' = "handler"
               /\ UNCHANGED <<response, db_faults>>
    /\ UNCHANGED <<store, now, header, api_key, cursor, keys_checked, key_doc,
                   last_used_write, started_at>>
    /\ UNCHANGED beyond_auth

\* what transcribe_audio may answer: the transcription, or one of its errors
HandlerResults ==
    {[status |-> 200, code |-> "OK", message |-> <<>>],
     IntoResponse(Err("BadRequest", <<"No file provided">>))}

\* next.run(req) returns the handler's response
HandlerReturns ==
    /\ pc = "handler"
    /\ \E r \in HandlerResults : response' = Some(r)
    /\ pc' = "done"
    /\ UNCHANGED <<store, now, header, api_key, cursor, keys_checked, key_doc,
                   last_used_write, project, handler_ran, db_faults, started_at>>
    /\ UNCHANGED beyond_auth

\* the response is sent; the server takes the next request
Respond ==
    /\ pc = "done"
    /\ pc' = "idle"
    /\ header' = NoHeader
    /\ api_key' = <<>>
    /\ cursor' = <<>>
    /\ keys_checked' = 0
    /\ key_doc' = None
    /\ last_used_write' = NoWrite
    /\ project' = None
    /\ handler_ran' = FALSE
    /\ response' = None
    /\ db_faults' = {}
    /\ started_at' = 0
    /\ UNCHANGED <<store, now>>
    /\ UNCHANGED beyond_auth

\* time passes; the clock is read when a request arrives and in each turn
\* of the loop over the cursor
Tick ==
    /\ now < MaxTime
    /\ pc \in {"idle", "scan"}
    /\ now' = now + 1
    /\ UNCHANGED <<store, pc, request>>
    /\ UNCHANGED beyond_auth

Next ==
    \/ Receive
    \/ Query
    \/ Scan
    \/ UpdateCompletes
    \/ FindProject
    \/ HandlerReturns
    \/ Respond
    \/ Tick

Spec == Init /\ [][Next]_vars

\* ------------------------------------------------------------- properties
\* the request in flight has left the authentication gate
Decided == pc \in {"handler", "done"}

\* no read of the repository failed in this request
ReadsSucceeded == db_faults \cap {"find", "cursor", "find_one"} = {}

\* the stored secret of doc is the token
DecryptsTo(doc, token) ==
    /\ doc.key_hash.b64
    /\ doc.key_hash.nonce >= NonceLen
    /\ doc.key_hash.key = VaultKey
    /\ doc.key_hash.pt = token

\* doc is an active credential, not expired at time t, with the token as secret
SoundFor(doc, token, t) ==
    /\ doc.is_active
    /\ ~(IsSome(doc.expires_at) /\ Get(doc.expires_at) < t)
    /\ DecryptsTo(doc, token)

\* the header is "Bearer " followed by the token
Carries(token) ==
    header = [present |-> TRUE, ascii |-> TRUE, text |-> Bearer \o token]

OwnerIsActive(doc) ==
    /\ doc.project_id \in DOMAIN projects
    /\ IsSome(projects[doc.project_id])
    /\ Get(projects[doc.project_id]).status = "active"

Rejected(status, code) ==
    /\ pc = "done"
    /\ ~handler_ran
    /\ IsSome(response)
    /\ Get(response).status = status
    /\ Get(response).code = code

C2_WrongTokenFails ==
    ( /\ Decided
      /\ \A i \in DOMAIN project_api_keys :
            ~(project_api_keys[i].is_active /\ DecryptsTo(project_api_keys[i], api_key)) )
    => /\ key_doc = None
       /\ ~handler_ran
       /\ ReadsSucceeded => Rejected(401, "AUTHENTICATION_ERROR")

C2_Witness ==
    /\ Rejected(401, "AUTHENTICATION_ERROR")
    /\ api_key = S9
    /\ keys_checked = NumKeys
    /\ \E i \in DOMAIN project_api_keys :
          /\ SoundFor(project_api_keys[i], S1, now)
          /\ project_api_keys[i].key_prefix = SubSeq(S9, 1, 9)

\* C3: a credential whose expiry lies in the past never matches, whatever its
\* secret: the matched credential was not expired when it matched; and when
\* every active credential with the token as secret had expired before the
\* request arrived, the request is rejected with AuthenticationError.
C3_ExpiredNeverMatches ==
    /\ IsSome(key_doc) =>
          ~(IsSome(Get(key_doc).expires_at)
            /\ Get(Get(key_doc).expires_at) < last_used_write.at)
    /\ ( /\ Decided
         /\ ReadsSucceeded
         /\ \A i \in DOMAIN project_api_keys :
               (project_api_keys[i].is_active /\ DecryptsTo(project_api_keys[i], api_key))
               => (IsSome(project_api_keys[i].expires_at)
                   /\ Get(project_api_keys[i].expires_at) < started_at) )
       => Rejected(401, "AUTHENTICATION_ERROR")

C3_Witness ==
    /\ Rejected(401, "AUTHENTICATION_ERROR")
    /\ api_key = S1
    /\ keys_checked > 0
    /\ \A i \in DOMAIN project_api_keys :
          /\ project_api_keys[i].is_active
          /\ DecryptsTo(project_api_keys[i], S1)
          /\ project_api_keys[i].expires_at = Some(0)
    /\ started_at > 0

\* the project document the matched credential names, if there is one
OwnerOf(doc) ==
    IF doc.project_id \in DOMAIN projects THEN projects[doc.project_id] ELSE None

\* C4: when the token matches an active, non-expired credential and the
\* owning project's status is not Active, the request is rejected with
\* AuthorizationError (403), not AuthenticationError (401), and the handler
\* is not run.
C4_InactiveProjectForbidden ==
    ( /\ Decided
      /\ IsSome(key_doc)
      /\ "find_one" \notin db_faults
      /\ IsSome(OwnerOf(Get(key_doc)))
      /\ Get(OwnerOf(Get(key_doc))).status \in ProjectStatus \ {"active"} )
    => /\ Rejected(403, "AUTHORIZATION_ERROR")
       /\ project = None

C4_Witness ==
    /\ Rejected(403, "AUTHORIZATION_ERROR")
    /\ IsSome(key_doc)
    /\ SoundFor(Get(key_doc), api_key, now)
    /\ Get(OwnerOf(Get(key_doc))).status = "archived"

\* C5: the handler of the authenticated route runs only if the request's
\* authentication found a stored credential that is active, not expired and
\* has the bearer token as its secret, and the owning project is Active.
C5_HandlerOnlyAfterAuth ==
    handler_ran =>
        /\ IsSome(key_doc)
        /\ header.present /\ header.ascii
        /\ StartsWith(header.text, Bearer)
        /\ Trim(SubSeq(header.text, Len(Bearer) + 1, Len(header.text))) = api_key
        /\ \E i \in DOMAIN project_api_keys :
              /\ project_api_keys[i].id = Get(key_doc).id
              /\ [project_api_keys[i] EXCEPT !.last_used_at = None]
                    = [Get(key_doc) EXCEPT !.last_used_at = None]
              /\ SoundFor(project_api_keys[i], api_key, last_used_write.at)
              /\ OwnerIsActive(project_api_keys[i])
              /\ project = projects[project_api_keys[i].project_id]

C5_Witness ==
    /\ handler_ran
    /\ pc = "done"
    /\ Get(response).status = 200
    /\ \E i \in DOMAIN project_api_keys : ~project_api_keys[i].is_active

\* the record at position i would be returned by the query for the token
IsCandidate(i, token) ==
    /\ project_api_keys[i].is_active
    /\ project_api_keys[i].key_prefix = SubSeq(token, 1, 9)

\* the record at position i cannot be decrypted
Undecryptable(i) ==
    \/ ~project_api_keys[i].key_hash.b64
    \/ project_api_keys[i].key_hash.nonce < NonceLen
    \/ project_api_keys[i].key_hash.key # VaultKey

\* C6: an undecryptable record among the candidates does not abort the scan:
\* when a later candidate is active, not expired and decrypts to the token,
\* and the repository reads succeed, that candidate (or an earlier sound one)
\* matches and the request is not rejected as unauthenticated; with an Active
\* owning project the handler runs.
C6_CorruptRecordSkipped ==
    \A i, j \in DOMAIN project_api_keys :
        ( /\ Decided
          /\ ReadsSucceeded
          /\ i < j
          /\ Len(api_key) >= 9
          /\ IsCandidate(i, api_key)
          /\ Undecryptable(i)
          /\ SoundFor(project_api_keys[j], api_key, now) )
        => /\ IsSome(key_doc)
           /\ DecryptsTo(Get(key_doc), api_key)
           /\ OwnerIsActive(project_api_keys[j]) => handler_ran
           /\ ~OwnerIsActive(project_api_keys[j]) => ~Rejected(401, "AUTHENTICATION_ERROR")

C6_Witness ==
    /\ handler_ran
    /\ keys_checked = 2
    /\ IsSome(key_doc)
    /\ Get(key_doc).id = 2
    /\ Undecryptable(1)
    /\ IsCandidate(1, api_key)

\* the one answer a request gets when no candidate matched
InvalidApiKeyResponse ==
    [status |-> 401, code |-> "AUTHENTICATION_ERROR",
     message |-> <<"Authentication error: ", "Invalid API key">>]

\* C7: when the scan ends without a match the response is the same
\* AuthenticationError with the message "Invalid API key", whatever the
\* candidates were: none or several, expired, undecryptable or holding
\* another secret.
C7_GenericRejection ==
    ( /\ pc = "done"
      /\ Len(api_key) > 0
      /\ key_doc = None
      /\ db_faults = {} )
    => response = Some(InvalidApiKeyResponse)

C7_Witness ==
    /\ pc = "done"
    /\ response = Some(InvalidApiKeyResponse)
    /\ keys_checked = 2
    /\ Undecryptable(1)
    /\ IsSome(project_api_keys[2].expires_at)

\* the Authorization header yields no well-formed bearer token
Malformed(h) ==
    \/ ~h.present
    \/ ~h.ascii
    \/ ~StartsWith(h.text, Bearer)
    \/ LET token == Trim(SubSeq(h.text, Len(Bearer) + 1, Len(h.text))) IN
          \/ token = <<>>
          \/ ~StartsWith(token, <<"p", "k", "_">>)

\* C8: a request whose Authorization header is absent, does not start with
\* "Bearer ", carries an empty token after trimming, or a token that does not
\* start with "pk_" is rejected with AuthenticationError (401); no state of
\* the request issues a repository query or runs the handler.
C8_MalformedHeaderRejected ==
    (pc # "idle" /\ Malformed(header)) =>
        /\ Rejected(401, "AUTHENTICATION_ERROR")
        /\ api_key = <<>>
        /\ cursor = <<>>
        /\ keys_checked = 0
        /\ db_faults = {}
        /\ last_used_write = NoWrite

C8_Witness ==
    /\ Rejected(401, "AUTHENTICATION_ERROR")
    /\ header.present
    /\ header.ascii
    /\ StartsWith(header.text, Bearer \o <<"s", "k", "_">>)

\* the update_one of last_used_at has been answered
WriteAnswered == last_used_write.state \in {"ok", "failed"}

\* C9: the update of last_used_at is best effort: whether it succeeds or
\* fails, a matched request goes on to the owning project and ends as that
\* project decides (handler run, 403, 404 or 400); a failed write is never
\* the request's answer.
C9_LastUsedBestEffort ==
    ( /\ Decided
      /\ IsSome(key_doc)
      /\ WriteAnswered
      /\ "find_one" \notin db_faults )
    => LET doc == Get(key_doc) IN
       /\ OwnerIsActive(doc) => (handler_ran /\ project = OwnerOf(doc))
       /\ (IsSome(OwnerOf(doc)) /\ ~OwnerIsActive(doc)) => Rejected(403, "AUTHORIZATION_ERROR")
       /\ (doc.project_id \in DOMAIN projects /\ OwnerOf(doc) = None) => Rejected(404, "NOT_FOUND")
       /\ doc.project_id \notin DOMAIN projects => Rejected(400, "BAD_REQUEST")

C9_Witness ==
    /\ pc = "done"
    /\ handler_ran
    /\ Get(response).status = 200
    /\ last_used_write.state = "failed"
    /\ "update" \in db_faults
    /\ \A i \in DOMAIN project_api_keys : project_api_keys[i].last_used_at = None

\* C10 as claimed: the gate does not wait for the update of last_used_at,
\* so it is never suspended on that write while the write is pending.
C10_NonBlockingWrite ==
    last_used_write.state = "pending" => pc # "mark_wait"

\* C10 amended: the update of last_used_at is awaited: while it is pending
\* the request stays suspended on it with no project resolved and no
\* response, and the owning project is looked up, the handler run and the
\* request answered only once the write has succeeded or failed.
C10_WriteAwaited ==
    /\ last_used_write.state = "pending" =>
          (pc = "mark_wait" /\ project = None /\ response = None /\ ~handler_ran)
    /\ (IsSome(key_doc) /\ pc \in {"find_project", "handler", "done"}) => WriteAnswered

C10_Witness ==
    /\ pc = "find_project"
    /\ IsSome(key_doc)
    /\ last_used_write.state = "ok"
    /\ \E i \in DOMAIN project_api_keys :
          project_api_keys[i].last_used_at = Some(last_used_write.at)

\* ============================================================ transcription
\* POST /v1/audio/transcribe behind the gate:
\*   api/handlers/transcription.rs      transcribe_audio
\*   domain/services/transcription.rs   TranscriptionService::transcribe, log_usage
\*   domain/services/llm_api_key.rs     LlmApiKeyService
\*   infrastructure/.../llm_api_key_repo.rs, transcription_repo.rs
\*   domain/services/providers/openai.rs OpenAIProvider::transcribe
\* Every request is one the gate let through for project P1. Requests run
\* concurrently; each stands at one of its .await points.

Requests == 1 .. NumRequests

\* the project the gate attached to the requests
AuthenticatedProject == P1

\* the gate is idle, over a store that admits P1
AuthQuiet ==
    /\ project_api_keys = [i \in 1 .. NumKeys |-> ProjectApiKey(i, P1, S1, Encrypt(S1), TRUE, None)]
    /\ projects = [p \in HexIds |->
          IF p \in {P1, P2} THEN Some([id |-> p, status |-> "active"]) ELSE None]
    /\ now = 0
    /\ pc = "idle"
    /\ header = NoHeader
    /\ api_key = <<>>
    /\ cursor = <<>>
    /\ keys_checked = 0
    /\ key_doc = None
    /\ last_used_write = NoWrite
    /\ project = None
    /\ handler_ran = FALSE
    /\ response = None
    /\ db_faults = {}
    /\ started_at = 0

TranscribeInit ==
    /\ AuthQuiet
    /\ llm_api_keys \in LlmKeyStores
    /\ transcription_history = <<>>
    /\ requests = [r \in Requests |-> IdleRequest]
    /\ mark_used_tasks = [k \in {K1, K2} |-> 0]
    /\ max_file_size_mb = DefaultMaxFileSizeMb
    /\ ChatQuiet
    /\ FnQuiet

\* Collection::find_one : the first of the documents the filter accepts
FindOne(hits) == IF hits = <<>> THEN None ELSE Some(Head(hits))

\* MongoLlmApiKeyRepository::find_by_id
FindById(keys, key_id) == FindOne(SelectSeq(keys, LAMBDA d : d.key_id = key_id))

DefaultFilterAnyState(d, project_id, provider) ==
    d.project_id = project_id /\ d.provider = provider /\ d.is_default

\* the filter of find_default_for_provider
DefaultFilter(d, project_id, provider) ==
    d.project_id = project_id /\ d.provider = provider /\ d.is_active /\ d.is_default

\* MongoLlmApiKeyRepository::find_default_for_provider
FindDefaultForProvider(keys, project_id, provider) ==
    FindOne(SelectSeq(keys, LAMBDA d : DefaultFilter(d, project_id, provider)))

GetDecryptedKeyAnyState(keys, key_id) ==
    LET found == FindById(keys, key_id) IN
    IF found = None
    THEN Err("NotFound", <<"LLM API key ", key_id, " not found">>)
    ELSE Decrypt(Get(found).encrypted_key)

\* LlmApiKeyService::get_decrypted_key, from the document read to the secret
GetDecryptedKey(keys, key_id) ==
    LET found == FindById(keys, key_id) IN
    IF found = None
    THEN Err("NotFound", <<"LLM API key ", key_id, " not found">>)
    ELSE IF ~Get(found).is_active
    THEN Err("AuthorizationError", <<"LLM API key is inactive">>)
    ELSE Decrypt(Get(found).encrypted_key)

\* transcribe's error when the project has no default credential
NoDefaultKey == Err("ConfigError", <<"No LLM API key configured for provider: ", "Openai">>)

\* a read of the llm_api_keys collection fails: From<mongodb::error::Error>
ReadFailed == Err("DatabaseError", <<"timeout">>)

\* the request ends with an error, which the handler turns into the response
Fail(r, e) ==
    requests' = [requests EXCEPT ![r] =
        [@ EXCEPT !.pc = "done", !.response = Some(IntoResponse(e))]]

\* `n as f32` for a length below 2^26: the nearest value with a 24-bit
\* significand, ties to the even one
AsF32(n) ==
    LET ulp == IF n < 16777216 THEN 1 ELSE IF n < 33554432 THEN 2 ELSE 4
        q == n \div ulp
        rest == n % ulp
    IN  IF 2 * rest < ulp THEN q * ulp
        ELSE IF 2 * rest > ulp THEN (q + 1) * ulp
        ELSE IF q % 2 = 0 THEN q * ulp ELSE (q + 1) * ulp

\* "{:.2}" of a size in megabytes, in hundredths
Hundredths(bytes) ==
    (bytes \div MiB) * 100 + ((bytes % MiB) * 100 + MiB \div 2) \div MiB

\* lengths of the uploaded file: none, one byte, and lengths around the
\* project's ceiling
UploadSizes(max_mb) == {0, 1} \cup {max_mb * MiB + d : d \in 0 .. 3}

ProjectLimits == {1, 16, DefaultMaxFileSizeMb}

\* transcribe_audio up to the call of transcribe: the form is read within
\* the body limit, then the file is tested for being empty and for its
\* size in megabytes.  Dividing by 1024.0 * 1024.0 is exact, so
\* file_size_mb > max as f32 compares AsF32(len) with max megabytes.
CheckUpload(len, max_mb) ==
    IF len >= BodyLimit
    THEN Err("BadRequest", <<"Failed to read file data: ", "length limit exceeded">>)
    ELSE IF len = 0
    THEN Err("BadRequest", <<"No file provided">>)
    ELSE IF AsF32(len) > max_mb * MiB
    THEN Err("BadRequest", <<"File size ", Hundredths(AsF32(len)), "MB exceeds limit of ",
                             max_mb, "MB">>)
    ELSE Ok(len)

\* transcribe_audio reads the form, tests the file and calls transcribe,
\* which starts the lookup of the provider credential: by the id given, or
\* the default
TranscribeAudio(r) ==
    /\ requests[r].pc = "idle"
    /\ r > 1 => requests[r - 1].pc # "idle"
    /\ \E len \in UploadSizes(max_file_size_mb), k \in KeyIdInputs :
          LET checked == CheckUpload(len, max_file_size_mb) IN
          IF ~checked.ok
          THEN requests' = [requests EXCEPT ![r] =
                  [@ EXCEPT !.pc = "done", !.file_size = len,
                            !.response = Some(IntoResponse(checked))]]
          ELSE requests' = [requests EXCEPT ![r] =
                  [@ EXCEPT !.file_size = len,
                            !.llm_api_key_id = k,
                            !.key_id = k,
                            !.pc = IF IsSome(k) THEN "find_by_id" ELSE "find_default"]]
    /\ UNCHANGED <<llm_api_keys, transcription_history, mark_used_tasks>>
    /\ UNCHANGED <<auth_vars, max_file_size_mb, chat, fn_call>>

\* get_default_key_for_provider: find_default_for_provider answers
ResolveDefault(r) ==
    /\ requests[r].pc = "find_default"
    /\ \/ Fail(r, ReadFailed)
       \/ LET found == FindDefaultForProvider(llm_api_keys, AuthenticatedProject, Openai) IN
          IF found = None
          THEN Fail(r, NoDefaultKey)
          ELSE requests' = [requests EXCEPT ![r] =
                  [@ EXCEPT !.key_id = Some(Get(found).key_id), !.pc = "find_by_id"]]
    /\ UNCHANGED <<llm_api_keys, transcription_history, mark_used_tasks>>
    /\ UNCHANGED <<auth_vars, max_file_size_mb, chat, fn_call>>

ResolveKeyLogsFirst(r) ==
    /\ requests[r].pc = "find_by_id"
    /\ \/ /\ Fail(r, ReadFailed)
          /\ UNCHANGED mark_used_tasks
       \/ LET key_id == Get(requests[r].key_id)
              decrypted == GetDecryptedKey(llm_api_keys, key_id) IN
          IF decrypted.ok
          THEN /\ mark_used_tasks' = [mark_used_tasks EXCEPT ![key_id] = @ + 1]
               /\ requests' = [requests EXCEPT ![r] =
                     [@ EXCEPT !.api_key = Some(decrypted.val),
                               !.pc = "provider",
                               !.log = "spawned",
                               !.history = Some([transcription_id |-> r]),
                               !.trace = @ \o <<"resolved", "log_usage", "provider_call">>]]
          ELSE /\ Fail(r, decrypted)
               /\ UNCHANGED mark_used_tasks
    /\ UNCHANGED <<llm_api_keys, transcription_history>>
    /\ UNCHANGED <<auth_vars, max_file_size_mb, chat, fn_call>>

\* get_decrypted_key: find_by_id answers; the key is checked and decrypted,
\* mark_used is spawned, and transcribe sends the upload to the provider
ResolveKey(r) ==
    /\ requests[r].pc = "find_by_id"
    /\ \/ /\ Fail(r, ReadFailed)
          /\ UNCHANGED mark_used_tasks
       \/ LET key_id == Get(requests[r].key_id)
              decrypted == GetDecryptedKey(llm_api_keys, key_id) IN
          IF decrypted.ok
          THEN /\ mark_used_tasks' = [mark_used_tasks EXCEPT ![key_id] = @ + 1]
               /\ requests' = [requests EXCEPT ![r] =
                     [@ EXCEPT !.api_key = Some(decrypted.val),
                               !.pc = "provider",
                               !.trace = @ \o <<"resolved", "provider_call">>]]
          ELSE /\ Fail(r, decrypted)
               /\ UNCHANGED mark_used_tasks
    /\ UNCHANGED <<llm_api_keys, transcription_history>>
    /\ UNCHANGED <<auth_vars, max_file_size_mb, chat, fn_call>>

\* upstream response bodies of a non-success status
Body401 == <<"4", "0", "1">>
BodyOther == <<"b", "a", "d">>
TranscribeErrorBodies == {Body401, BodyOther}

\* reqwest::Error's text when the request cannot be sent
ReqwestErrors == {"error sending request"}

\* what OpenAIProvider::transcribe returns
TranscribeOutcomes ==
    {Ok("hello")}
    \cup {Err("ExternalApiError", <<"OpenAI API error: ">> \o body) : body \in TranscribeErrorBodies}
    \cup {Err("ExternalApiError", <<m>>) : m \in ReqwestErrors}

\* the handler's answer to a transcription
Transcribed(text) == [status |-> 200, code |-> "OK", message |-> <<text>>]

\* TranscriptionHistory::new as log_usage calls it for request r
TranscriptionHistory(r, text) ==
    [transcription_id |-> r, project_id |-> AuthenticatedProject, provider |-> Openai,
     file_hash |-> CalculateFileHash(AudioFile), text |-> text, from_cache |-> FALSE]

LogUsageNever == "none"

\* log_usage: the state of the task it leaves behind
LogUsage == "spawned"

ProviderReturnsLogsFailures(r) ==
    /\ requests[r].pc = "provider"
    /\ \E o \in TranscribeOutcomes :
          IF o.ok
          THEN requests' = [requests EXCEPT ![r] =
                  [@ EXCEPT !.pc = "done",
                            !.response = Some(Transcribed(o.val)),
                            !.log = LogUsage,
                            !.history = Some(TranscriptionHistory(r, o.val)),
                            !.trace = @ \o <<"provider_ok", "log_usage">>]]
          ELSE requests' = [requests EXCEPT ![r] =
                  [@ EXCEPT !.pc = "done",
                            !.response = Some(IntoResponse(o)),
                            !.log = LogUsage,
                            !.history = Some(TranscriptionHistory(r, "")),
                            !.trace = @ \o <<"provider_err", "log_usage">>]]
    /\ UNCHANGED <<llm_api_keys, transcription_history, mark_used_tasks>>
    /\ UNCHANGED <<auth_vars, max_file_size_mb, chat, fn_call>>

\* the provider answers: on Ok log_usage spawns the write of the history
\* record and the transcription is returned; an Err is returned as it is
ProviderReturns(r) ==
    /\ requests[r].pc = "provider"
    /\ \E o \in TranscribeOutcomes :
          IF o.ok
          THEN requests' = [requests EXCEPT ![r] =
                  [@ EXCEPT !.pc = "done",
                            !.response = Some(Transcribed(o.val)),
                            !.log = LogUsage,
                            !.history = Some(TranscriptionHistory(r, o.val)),
                            !.trace = @ \o <<"provider_ok", "log_usage">>]]
          ELSE requests' = [requests EXCEPT ![r] =
                  [@ EXCEPT !.pc = "done",
                            !.response = Some(IntoResponse(o)),
                            !.trace = @ \o <<"provider_err">>]]
    /\ UNCHANGED <<llm_api_keys, transcription_history, mark_used_tasks>>
    /\ UNCHANGED <<auth_vars, max_file_size_mb, chat, fn_call>>

InsertOneReplacingSameHash(coll, doc) ==
    IF \E i \in DOMAIN coll : coll[i].file_hash = doc.file_hash
    THEN [i \in DOMAIN coll |-> IF coll[i].file_hash = doc.file_hash THEN doc ELSE coll[i]]
    ELSE Append(coll, doc)

\* Collection::insert_one
InsertOne(coll, doc) == Append(coll, doc)

LogTaskRunsPropagates(r) ==
    /\ requests[r].log = "spawned"
    /\ \/ /\ transcription_history' = InsertOne(transcription_history, Get(requests[r].history))
          /\ requests' = [requests EXCEPT ![r] =
                [@ EXCEPT !.log = "done", !.trace = @ \o <<"create">>]]
       \/ /\ requests' = [requests EXCEPT ![r] =
                [@ EXCEPT !.log = "failed", !.trace = @ \o <<"create">>,
                          !.response = IF @ = None THEN @ ELSE Some(IntoResponse(ReadFailed))]]
          /\ UNCHANGED transcription_history
    /\ UNCHANGED <<llm_api_keys, mark_used_tasks>>
    /\ UNCHANGED <<auth_vars, max_file_size_mb, chat, fn_call>>

\* the detached task of log_usage runs: repo.create writes the record, or
\* fails and the error is logged
LogTaskRuns(r) ==
    /\ requests[r].log = "spawned"
    /\ \/ /\ transcription_history' = InsertOne(transcription_history, Get(requests[r].history))
          /\ requests' = [requests EXCEPT ![r] =
                [@ EXCEPT !.log = "done", !.trace = @ \o <<"create">>]]
       \/ /\ requests' = [requests EXCEPT ![r] =
                [@ EXCEPT !.log = "failed", !.trace = @ \o <<"create">>]]
          /\ UNCHANGED transcription_history
    /\ UNCHANGED <<llm_api_keys, mark_used_tasks>>
    /\ UNCHANGED <<auth_vars, max_file_size_mb, chat, fn_call>>

MarkUsedRewritesRecord(keys, key_id, at) ==
    [i \in DOMAIN keys |->
        IF keys[i].key_id = key_id
        THEN [keys[i] EXCEPT !.last_used_at = Some(at), !.is_active = TRUE]
        ELSE keys[i]]

\* MongoLlmApiKeyRepository::mark_used : $set of last_used_at
MarkUsed(keys, key_id, at) ==
    [i \in DOMAIN keys |->
        IF keys[i].key_id = key_id THEN [keys[i] EXCEPT !.last_used_at = Some(at)] ELSE keys[i]]

\* a detached mark_used task of get_decrypted_key runs: the stamp is
\* written, or the write fails and the error is logged
MarkUsedRuns(k) ==
    /\ mark_used_tasks[k] > 0
    /\ mark_used_tasks' = [mark_used_tasks EXCEPT ![k] = @ - 1]
    /\ \/ llm_api_keys' = MarkUsed(llm_api_keys, k, now)
       \/ UNCHANGED llm_api_keys
    /\ UNCHANGED <<transcription_history, requests>>
    /\ UNCHANGED <<auth_vars, max_file_size_mb, chat, fn_call>>

\* the points where a request can be dropped: its .await points, and the
\* moment its response waits to be written while its log task is pending
Droppable(req) ==
    \/ req.pc \in {"find_default", "find_by_id", "provider"}
    \/ req.pc = "done" /\ req.log = "spawned"

\* what is left of a dropped request: its locals are gone; the task it
\* spawned, with the record moved into it, and the trace of what it did stay
Dropped(req) ==
    [IdleRequest EXCEPT !.pc = "cancelled", !.log = req.log, !.history = req.history,
                        !.trace = req.trace]

CancelAbortsTask(r) ==
    /\ Droppable(requests[r])
    /\ requests' = [requests EXCEPT ![r] =
          [Dropped(@) EXCEPT !.log = IF @ = "spawned" THEN "aborted" ELSE @]]
    /\ UNCHANGED <<llm_api_keys, transcription_history, mark_used_tasks>>
    /\ UNCHANGED <<auth_vars, max_file_size_mb, chat, fn_call>>

\* the client goes away: the request's future is dropped where it stands
Cancel(r) ==
    /\ Droppable(requests[r])
    /\ requests' = [requests EXCEPT ![r] = Dropped(@)]
    /\ UNCHANGED <<llm_api_keys, transcription_history, mark_used_tasks>>
    /\ UNCHANGED <<auth_vars, max_file_size_mb, chat, fn_call>>

TranscribeNext ==
    \/ \E r \in Requests : TranscribeAudio(r)
    \/ \E r \in Requests : ResolveDefault(r)
    \/ \E r \in Requests : ResolveKey(r)
    \/ \E r \in Requests : ProviderReturns(r)
    \/ \E r \in Requests : LogTaskRuns(r)
    \/ \E k \in {K1, K2} : MarkUsedRuns(k)
    \/ \E r \in Requests : Cancel(r)

TranscribeSpec == TranscribeInit /\ [][TranscribeNext]_vars

\* The runtime polls every spawned task until it finishes, whatever becomes
\* of the request that spawned it, and the driver answers insert_one with Ok
\* or Err: a log task that can run eventually does.  What the task does is
\* independent of the credential that was resolved, so the behaviours start
\* from the store with a usable default credential.
TranscribeFairInit ==
    /\ AuthQuiet
    /\ TranscribeQuiet
    /\ ChatQuiet
    /\ FnQuiet

TranscribeFairSpec ==
    /\ TranscribeFairInit
    /\ [][TranscribeNext]_vars
    /\ \A r \in Requests : WF_vars(LogTaskRuns(r))

\* ------------------------------------------- properties of transcription
\* the request reached the provider: transcribe sent the upload
ProviderCalled(req) == \E i \in DOMAIN req.trace : req.trace[i] = "provider_call"

\* the request was answered with this status and error code
Answered(req, status, code) ==
    /\ req.pc = "done"
    /\ IsSome(req.response)
    /\ Get(req.response).status = status
    /\ Get(req.response).code = code

\* the request ended because a read of the llm_api_keys collection failed
ReadFault(req) ==
    /\ Answered(req, 500, "INTERNAL_ERROR")
    /\ Get(req.response).message[1] = "Database error: "

\* d is an active default credential of the authenticated project for OpenAI
IsDefaultForOpenai(d) ==
    d.project_id = AuthenticatedProject /\ d.provider = "openai" /\ d.is_active /\ d.is_default

\* the handler accepted the upload of this request and called transcribe
EnteredTranscribe(req) == CheckUpload(req.file_size, max_file_size_mb).ok

\* the stored document with this key_id, as a set (empty when there is none)
DocsWithId(k) == {i \in DOMAIN llm_api_keys : llm_api_keys[i].key_id = k}

\* C11: provider credential resolution in transcribe. With an explicit
\* llm_api_key_id the secret used is the one of exactly that credential, and
\* an inactive credential ends the request with AuthorizationError (403)
\* before any provider call; with none, the secret is the one of the
\* project's active default credential for OpenAI, and when no such default
\* exists the request ends with ConfigError (500, "Configuration error: ")
\* and no provider call is made. (A failed read of the collection ends the
\* request with DatabaseError instead.) The requests meant are those whose
\* upload the handler accepted, so that transcribe was called.
C11_CredentialResolution ==
    \A r \in Requests :
        LET req == requests[r] IN
        (req.pc \in {"provider", "done"} /\ EnteredTranscribe(req)) =>
            /\ ProviderCalled(req) <=> IsSome(req.api_key)
            /\ IsSome(req.api_key) =>
                  \E i \in DOMAIN llm_api_keys :
                     LET d == llm_api_keys[i] IN
                     /\ d.is_active
                     /\ Decrypt(d.encrypted_key) = Ok(Get(req.api_key))
                     /\ IF IsSome(req.llm_api_key_id)
                        THEN d.key_id = Get(req.llm_api_key_id)
                        ELSE IsDefaultForOpenai(d)
            /\ ( /\ IsSome(req.llm_api_key_id)
                 /\ ~ReadFault(req)
                 /\ \E i \in DocsWithId(Get(req.llm_api_key_id)) : ~llm_api_keys[i].is_active )
               => /\ Answered(req, 403, "AUTHORIZATION_ERROR")
                  /\ ~ProviderCalled(req)
            /\ ( /\ req.llm_api_key_id = None
                 /\ ~ReadFault(req)
                 /\ \A i \in DOMAIN llm_api_keys : ~IsDefaultForOpenai(llm_api_keys[i]) )
               => /\ Answered(req, 500, "INTERNAL_ERROR")
                  /\ Get(req.response).message[1] = "Configuration error: "
                  /\ ~ProviderCalled(req)

\* one run shows both ways: a request naming K1 is sent upstream with K1's
\* secret while a request naming no key ends with ConfigError, K1 being
\* active and not the default
C11_Witness ==
    /\ llm_api_keys[1].is_active /\ ~llm_api_keys[1].is_default
    /\ \E r1, r2 \in Requests :
          /\ requests[r1].llm_api_key_id = Some(K1)
          /\ requests[r1].pc = "provider"
          /\ requests[r1].api_key = Some(SK1)
          /\ requests[r2].llm_api_key_id = None
          /\ Answered(requests[r2], 500, "INTERNAL_ERROR")
          /\ Get(requests[r2].response).message[1] = "Configuration error: "
          /\ ~ProviderCalled(requests[r2])

\* the positions of an event in a request's trace
At(req, event) == {i \in DOMAIN req.trace : req.trace[i] = event}

\* every occurrence of `later` in the trace has an occurrence of `earlier`
\* before it
Precedes(req, earlier, later) ==
    \A j \in At(req, later) : \E i \in At(req, earlier) : i < j

\* C12: within one transcription request, credential resolution completes
\* before the provider call starts, the provider call returns before
\* log_usage spawns the usage-log write, and the write (create) comes after
\* both: no usage-log write of a request precedes its provider call.
C12_EventOrder ==
    \A r \in Requests :
        LET req == requests[r] IN
        /\ Precedes(req, "resolved", "provider_call")
        /\ Precedes(req, "provider_call", "provider_ok")
        /\ Precedes(req, "provider_call", "provider_err")
        /\ Precedes(req, "provider_ok", "log_usage")
        /\ Precedes(req, "log_usage", "create")
        /\ Precedes(req, "provider_call", "create")
        /\ req.log # "none" => At(req, "provider_ok") # {}
        /\ req.pc = "provider" => /\ IsSome(req.api_key)
                                  /\ req.log = "none"

C12_Witness ==
    \E r \in Requests :
        /\ requests[r].trace =
              <<"resolved", "provider_call", "provider_ok", "log_usage", "create">>
        /\ requests[r].log = "done"
        /\ Len(transcription_history) > 0

\* C13: a failure of the background usage-log write never changes the
\* caller's response. A request whose provider call succeeded is answered
\* 200 with the provider's transcript, whether its write is still pending,
\* has succeeded or has failed; and the step in which the write succeeds or
\* fails leaves the response as it was.
C13_LogFailureSwallowed ==
    \A r \in Requests :
        LET req == requests[r] IN
        (req.pc = "done" /\ req.log \in {"spawned", "done", "failed"})
        => /\ Answered(req, 200, "OK")
           /\ Get(req.response).message = <<Get(req.history).text>>

C13_Witness ==
    \E r \in Requests :
        /\ requests[r].log = "failed"
        /\ Answered(requests[r], 200, "OK")
        /\ Get(requests[r].response).message = <<"hello">>
        /\ transcription_history = <<>>

\* requests whose provider call returned Ok to transcribe
Succeeded == {r \in Requests : At(requests[r], "provider_ok") # {}}

\* requests whose detached task has called TranscriptionRepository::create
WriteAttempted == {r \in Requests : At(requests[r], "create") # {}}

\* requests whose detached task is spawned and has not run yet
WritePending == {r \in Requests : requests[r].log = "spawned"}

\* C14: every transcription whose provider call succeeded triggers exactly
\* one usage-log write, made by a detached task: a request has at most one
\* task and one create call, it has a task exactly when its provider call
\* returned Ok, the create calls made and still to be made together number
\* the successful provider calls under every interleaving, and once no task
\* is pending the write attempts equal the successful provider calls.
C14_OneWritePerSuccess ==
    /\ \A r \in Requests :
          LET req == requests[r] IN
          /\ Cardinality(At(req, "log_usage")) <= 1
          /\ Cardinality(At(req, "create")) <= 1
          /\ (r \in Succeeded) <=> (req.log # "none")
          /\ (r \in WriteAttempted) <=> (req.log \in {"done", "failed"})
    /\ WriteAttempted \cap WritePending = {}
    /\ WriteAttempted \cup WritePending = Succeeded
    /\ Len(transcription_history) = Cardinality({r \in Requests : requests[r].log = "done"})
    /\ WritePending = {} => Cardinality(WriteAttempted) = Cardinality(Succeeded)

\* two requests succeeded upstream: one has been answered while its write
\* has not run yet, the other's write is in the collection
C14_Witness ==
    \E r1, r2 \in Requests :
        /\ r1 # r2
        /\ Answered(requests[r1], 200, "OK")
        /\ requests[r1].log = "spawned"
        /\ requests[r2].log = "done"
        /\ Len(transcription_history) = 1
        /\ Cardinality(Succeeded) = 2

\* requests whose provider call returned an Err to transcribe
ProviderFailed == {r \in Requests : At(requests[r], "provider_err") # {}}

\* C15: when the provider call of a transcription fails, the adapter's error
\* reaches the caller unchanged (kind ExternalApiError with the adapter's
\* text, answered by AppError's own mapping), no usage-log task is spawned
\* and no history record is ever written for that request.
C15_ProviderFailurePropagates ==
    \A r \in ProviderFailed :
        LET req == requests[r] IN
        /\ req.log = "none"
        /\ req.history = None
        /\ At(req, "log_usage") = {}
        /\ At(req, "create") = {}
        /\ \A i \in DOMAIN transcription_history :
              transcription_history[i].transcription_id # r
        /\ req.pc = "done" =>
              \E e \in {o \in TranscribeOutcomes : ~o.ok} :
                 /\ e.kind = "ExternalApiError"
                 /\ Get(req.response) =
                       [status |-> 502, code |-> "EXTERNAL_API_ERROR",
                        message |-> <<"External API error: ">> \o e.msg]

\* an upstream failure with body "401" was answered, beside a request that
\* succeeded and whose record is written: the collection holds that one only
C15_Witness ==
    \E r1, r2 \in Requests :
        /\ r1 \in ProviderFailed
        /\ requests[r1].pc = "done"
        /\ Get(requests[r1].response).message =
              <<"External API error: ", "OpenAI API error: ", "4", "0", "1">>
        /\ requests[r2].log = "done"
        /\ Len(transcription_history) = 1
        /\ transcription_history[1].transcription_id = r2

\* C16: once log_usage has spawned the usage-log task of a request, the
\* task eventually completes its write or fails, under fair scheduling of
\* spawned tasks, whether the parent request completes or is dropped
\* meanwhile: dropping the request does not cancel the task.
C16_DetachedTaskCompletes ==
    \A r \in Requests :
        (requests[r].log = "spawned") ~> (requests[r].log \in {"done", "failed"})

\* the request was dropped while its task was pending, and the task wrote
\* its record afterwards
C16_Witness ==
    \E r \in Requests :
        /\ requests[r].pc = "cancelled"
        /\ requests[r].log = "done"
        /\ \E i \in DOMAIN transcription_history :
              transcription_history[i].transcription_id = r

\* every record stored before a step is stored unchanged, at the same place,
\* after it
HistoryKept ==
    /\ Len(transcription_history') >= Len(transcription_history)
    /\ \A i \in DOMAIN transcription_history :
          transcription_history'[i] = transcription_history[i]

\* a request that built a history record got its text from the provider, not
\* from a stored record, whatever the collection held for its file hash
NotReadBack ==
    \A r \in Requests :
        requests[r].history # None =>
            /\ ProviderCalled(requests[r])
            /\ At(requests[r], "provider_ok") # {}
            /\ ~Get(requests[r].history).from_cache

\* C17: transcription history is append-only: every step of the gateway
\* keeps every stored record as it is and the collection only grows; and the
\* request path never answers from a stored record: a request whose file hash
\* is already recorded still calls the provider.
C17_AppendOnly == [][HistoryKept]_vars /\ []NotReadBack

\* two requests for the same file each called the provider and each left
\* its own record
C17_Witness ==
    \E i, j \in DOMAIN transcription_history :
        /\ i < j
        /\ transcription_history[i].file_hash = transcription_history[j].file_hash
        /\ transcription_history[i].transcription_id # transcription_history[j].transcription_id
        /\ \A r \in {transcription_history[i].transcription_id,
                     transcription_history[j].transcription_id} :
              At(requests[r], "provider_call") # {}

\* ------------------------------------------------- AppError::into_response
\* messages an error value may carry, among them texts that name a status
ErrorMessages ==
    {<<>>, <<"timeout">>, <<"400">>, <<"401">>, <<"403">>, <<"404">>, <<"429">>,
     <<"502">>, <<"503">>, <<"OpenAI API error: ", "rate_limit">>}

AppErrors == {Err(kind, msg) : kind \in ErrorKinds, msg \in ErrorMessages}

FnInit ==
    /\ AuthQuiet
    /\ TranscribeQuiet
    /\ ChatQuiet
    /\ FnQuiet

\* an error value is turned into its response
IntoResponseCall ==
    /\ \E e \in AppErrors :
          fn_call' = Some([fn |-> "into_response", input |-> e, output |-> IntoResponse(e)])
    /\ UNCHANGED <<auth_vars, transcribe_vars, chat>>

\* texts the vault is asked to seal
Plaintexts == {"", "sk-1", "sk-2", "pk_live"}

\* stored texts the vault is asked to open
Blobs ==
    {Blob(b64, nonce, key, pt) :
        b64 \in BOOLEAN, nonce \in {0, 5, 11, NonceLen},
        key \in {VaultKey, OtherKey, NoKey}, pt \in Plaintexts \cup {BadUtf8}}

\* a text is sealed and the result opened by the same service
EncryptDecryptCall ==
    /\ \E x \in Plaintexts :
          fn_call' = Some([fn |-> "encrypt_decrypt", input |-> x,
                           output |-> Decrypt(Encrypt(x))])
    /\ UNCHANGED <<auth_vars, transcribe_vars, chat>>

\* a stored text is opened
DecryptCall ==
    /\ \E blob \in Blobs :
          fn_call' = Some([fn |-> "decrypt", input |-> blob, output |-> Decrypt(blob)])
    /\ UNCHANGED <<auth_vars, transcribe_vars, chat>>

\* model-name prefixes of the price table
GPT4Turbo == <<"g", "p", "t", "-", "4", "-", "t", "u", "r", "b", "o">>
GPT41106 == <<"g", "p", "t", "-", "4", "-", "1", "1", "0", "6">>
GPT4 == <<"g", "p", "t", "-", "4">>
GPT35Turbo ==
    <<"g", "p", "t", "-", "3", ".", "5", "-", "t", "u", "r", "b", "o">>

\* model names a chat request may carry
ModelNames ==
    {<<"g", "p", "t", "-", "4", "-", "t", "u", "r", "b", "o", "-", "p", "r", "e", "v", "i", "e", "w">>,
     <<"g", "p", "t", "-", "4", "-", "1", "1", "0", "6", "-", "p", "r", "e", "v", "i", "e", "w">>,
     <<"g", "p", "t", "-", "4">>,
     <<"g", "p", "t", "-", "4", "o">>,
     <<"g", "p", "t", "-", "3", ".", "5", "-", "t", "u", "r", "b", "o">>,
     <<"g", "p", "t", "-", "3", ".", "5", "-", "t", "u", "r", "b", "o", "-", "1", "6", "k">>,
     <<"g", "p", "t", "-", "3", ".", "5">>,
     <<"c", "l", "a", "u", "d", "e", "-", "3">>,
     <<>>}

\* a price pair: dollars per 1000 tokens of input and of output, in
\* ten-thousandths of a dollar
Prices(input_price, output_price) == [input |-> input_price, output |-> output_price]

PriceOfGpt4First(model) ==
    IF StartsWith(model, GPT4) THEN Prices(300, 600)
    ELSE IF StartsWith(model, GPT4Turbo) \/ StartsWith(model, GPT41106) THEN Prices(100, 300)
    ELSE IF StartsWith(model, GPT35Turbo) THEN Prices(5, 15)
    ELSE Prices(5, 15)

\* calculate_openai_cost's match on the model name
PriceOf(model) ==
    IF StartsWith(model, GPT4Turbo) \/ StartsWith(model, GPT41106) THEN Prices(100, 300)
    ELSE IF StartsWith(model, GPT4) THEN Prices(300, 600)
    ELSE IF StartsWith(model, GPT35Turbo) THEN Prices(5, 15)
    ELSE Prices(5, 15)

\* calculate_openai_cost, in ten-millionths of a dollar: tokens / 1000 at a
\* price in ten-thousandths
CalculateOpenaiCost(model, prompt_tokens, completion_tokens) ==
    prompt_tokens * PriceOf(model).input + completion_tokens * PriceOf(model).output

TokenCounts == {0, 1, 500, 1000}

\* the cost of a completion is computed
CalculateOpenaiCostCall ==
    /\ \E model \in ModelNames, prompt_tokens \in TokenCounts, completion_tokens \in TokenCounts :
          fn_call' = Some([fn |-> "calculate_openai_cost",
                           input |-> <<model, prompt_tokens, completion_tokens>>,
                           output |-> CalculateOpenaiCost(model, prompt_tokens, completion_tokens)])
    /\ UNCHANGED <<auth_vars, transcribe_vars, chat>>

FnNext ==
    \/ IntoResponseCall
    \/ EncryptDecryptCall
    \/ DecryptCall
    \/ CalculateOpenaiCostCall

FnSpec == FnInit /\ [][FnNext]_vars

\* the mapping as a table from error kind to HTTP status
StatusTable ==
    [kind \in ErrorKinds |->
        CASE kind \in {"ValidationError", "BadRequest"} -> 400
          [] kind = "AuthenticationError" -> 401
          [] kind = "AuthorizationError" -> 403
          [] kind = "NotFound" -> 404
          [] kind = "RateLimitError" -> 429
          [] kind = "ExternalApiError" -> 502
          [] kind \in {"DatabaseError", "ConfigError", "EncryptionError", "InternalError"} -> 500
          [] kind = "ServiceUnavailable" -> 503]

\* C18: into_response gives every error value the HTTP status of its kind:
\* ValidationError and BadRequest 400, AuthenticationError 401,
\* AuthorizationError 403, NotFound 404, RateLimitError 429, ExternalApiError
\* 502, DatabaseError, ConfigError, EncryptionError and InternalError 500,
\* ServiceUnavailable 503, whatever the message says.
C18_StatusMapping ==
    /\ DOMAIN StatusTable = ErrorKinds
    /\ IsSome(fn_call) /\ Get(fn_call).fn = "into_response" =>
          /\ Get(fn_call).input.kind \in ErrorKinds
          /\ Get(fn_call).output.status = StatusTable[Get(fn_call).input.kind]

\* an upstream failure whose text names another status is answered 502
C18_Witness ==
    /\ IsSome(fn_call)
    /\ Get(fn_call).fn = "into_response"
    /\ Get(fn_call).input = Err("ExternalApiError", <<"429">>)
    /\ Get(fn_call).output.status = 502

\* ------------------------------------------------------ chat completions
\* Texts the handler searches are sequences of characters.

\* str::contains
Contains(text, pat) ==
    \E i \in 0 .. (Len(text) - Len(pat)) : SubSeq(text, i + 1, i + Len(pat)) = pat

OpenAiErrorOpen ==
    <<"O", "p", "e", "n", "A", "I", " ", "A", "P", "I", " ", "e", "r", "r",
      "o", "r", " ", "(">>

OpenAiErrorClose ==
    <<")", ":", " ">>

\* StatusCode's Display: the code and its canonical reason
StatusDisplay(status) ==
    CASE status = 400 -> <<"4", "0", "0", " ", "B", "a", "d", " ", "R", "e", "q", "u", "e", "s", "t">>
      [] status = 401 -> <<"4", "0", "1", " ", "U", "n", "a", "u", "t", "h", "o", "r", "i", "z", "e", "d">>
      [] status = 429 ->
            <<"4", "2", "9", " ", "T", "o", "o", " ", "M", "a", "n", "y", " ", "R", "e", "q", "u", "e", "s", "t", "s">>
      [] status = 500 ->
            <<"5", "0", "0", " ", "I", "n", "t", "e", "r", "n", "a", "l", " ", "S", "e",
             "r", "v", "e", "r", " ", "E", "r", "r", "o", "r">>

\* texts the handler looks for
T401 == <<"4", "0", "1">>
T429 == <<"4", "2", "9">>
T400 == <<"4", "0", "0">>
TAuthentication == <<"a", "u", "t", "h", "e", "n", "t", "i", "c", "a", "t", "i", "o", "n">>
TRateLimit == <<"r", "a", "t", "e", "_", "l", "i", "m", "i", "t">>

\* reqwest::Error's text when the request cannot be sent
SendError ==
    <<"e", "r", "r", "o", "r", " ", "s", "e", "n", "d", "i", "n", "g", " ", "r", "e", "q", "u", "e", "s", "t">>

\* a chat request: the number of messages, the model, and the sampling
\* parameters in tenths
ChatCompletionRequest(messages, model, temperature, top_p, frequency_penalty, presence_penalty) ==
    [messages |-> messages, model |-> model, temperature |-> temperature,
     top_p |-> top_p, frequency_penalty |-> frequency_penalty,
     presence_penalty |-> presence_penalty]

\* requests on and beyond every limit validate tests; 30 is temperature 3.0
ChatRequests ==
    {ChatCompletionRequest(1, "gpt-4", 7, 10, 0, 0),
     ChatCompletionRequest(1, "gpt-4", 0, 0, -20, -20),
     ChatCompletionRequest(2, "gpt-4", 20, 10, 20, 20),
     ChatCompletionRequest(0, "gpt-4", 7, 10, 0, 0),
     ChatCompletionRequest(1, "", 7, 10, 0, 0),
     ChatCompletionRequest(0, "", 30, 11, 21, 21),
     ChatCompletionRequest(1, "gpt-4", -1, 10, 0, 0),
     ChatCompletionRequest(1, "gpt-4", 21, 10, 0, 0),
     ChatCompletionRequest(1, "gpt-4", 30, 10, 0, 0),
     ChatCompletionRequest(1, "gpt-4", 7, -1, 0, 0),
     ChatCompletionRequest(1, "gpt-4", 7, 11, 0, 0),
     ChatCompletionRequest(1, "gpt-4", 7, 10, -21, 0),
     ChatCompletionRequest(1, "gpt-4", 7, 10, 21, 0),
     ChatCompletionRequest(1, "gpt-4", 7, 10, 0, -21),
     ChatCompletionRequest(1, "gpt-4", 7, 10, 0, 21)}

ValidateSkipsTopP(req) ==
    IF req.messages = 0 THEN Err("String", <<"messages array cannot be empty">>)
    ELSE IF req.model = "" THEN Err("String", <<"model cannot be empty">>)
    ELSE IF ~(req.temperature \in 0 .. 20)
    THEN Err("String", <<"temperature must be between 0 and 2">>)
    ELSE IF ~(req.frequency_penalty \in -20 .. 20)
    THEN Err("String", <<"frequency_penalty must be between -2 and 2">>)
    ELSE IF ~(req.presence_penalty \in -20 .. 20)
    THEN Err("String", <<"presence_penalty must be between -2 and 2">>)
    ELSE Ok(TRUE)

\* ChatCompletionRequest::validate
Validate(req) ==
    IF req.messages = 0 THEN Err("String", <<"messages array cannot be empty">>)
    ELSE IF req.model = "" THEN Err("String", <<"model cannot be empty">>)
    ELSE IF ~(req.temperature \in 0 .. 20)
    THEN Err("String", <<"temperature must be between 0 and 2">>)
    ELSE IF ~(req.top_p \in 0 .. 10)
    THEN Err("String", <<"top_p must be between 0 and 1">>)
    ELSE IF ~(req.frequency_penalty \in -20 .. 20)
    THEN Err("String", <<"frequency_penalty must be between -2 and 2">>)
    ELSE IF ~(req.presence_penalty \in -20 .. 20)
    THEN Err("String", <<"presence_penalty must be between -2 and 2">>)
    ELSE Ok(TRUE)

\* the value of OPENAI_API_KEY in the process environment
EnvKey == "sk-env"

\* what the upstream answers: no response at all, or a status and a body
ChatErrorBodies == {<<>>, TAuthentication, TRateLimit, T401, T429}
ChatErrorStatuses == {400, 401, 429, 500}
UpstreamAnswers ==
    {[sent |-> FALSE, status |-> 0, body |-> <<>>],
     [sent |-> TRUE, status |-> 200, body |-> <<"chatcmpl-1">>]}
    \cup {[sent |-> TRUE, status |-> st, body |-> b] :
            st \in ChatErrorStatuses, b \in ChatErrorBodies}

\* StatusCode::is_success
IsSuccess(status) == status \in 200 .. 299

\* OpenAIProvider::chat_completion on the upstream's answer
ChatCompletion(answer) ==
    IF ~answer.sent
    THEN Err("ExternalApiError", SendError)
    ELSE IF ~IsSuccess(answer.status)
    THEN Err("ExternalApiError",
             OpenAiErrorOpen \o StatusDisplay(answer.status) \o OpenAiErrorClose \o answer.body)
    ELSE Ok(Head(answer.body))

\* ChatErrorResponse with its HTTP status
ChatError(status, type, code, message) ==
    [status |-> status, type |-> type, code |-> code, message |-> message]

ClassifyRateLimitFirst(e) ==
    IF e.kind = "ExternalApiError" /\ (Contains(e.msg, T429) \/ Contains(e.msg, TRateLimit))
    THEN ChatError(429, "rate_limit_error", "rate_limit_exceeded", Display(e))
    ELSE IF e.kind = "ExternalApiError" /\ (Contains(e.msg, T401) \/ Contains(e.msg, TAuthentication))
    THEN ChatError(401, "authentication_error", "invalid_api_key", Display(e))
    ELSE IF e.kind = "ExternalApiError" /\ Contains(e.msg, T400)
    THEN ChatError(400, "invalid_request_error", "invalid_request", Display(e))
    ELSE ChatError(500, "api_error", "provider_error", Display(e))

\* create_chat_completion's match on the provider's error
Classify(e) ==
    IF e.kind = "ExternalApiError" /\ (Contains(e.msg, T401) \/ Contains(e.msg, TAuthentication))
    THEN ChatError(401, "authentication_error", "invalid_api_key", Display(e))
    ELSE IF e.kind = "ExternalApiError" /\ (Contains(e.msg, T429) \/ Contains(e.msg, TRateLimit))
    THEN ChatError(429, "rate_limit_error", "rate_limit_exceeded", Display(e))
    ELSE IF e.kind = "ExternalApiError" /\ Contains(e.msg, T400)
    THEN ChatError(400, "invalid_request_error", "invalid_request", Display(e))
    ELSE ChatError(500, "api_error", "provider_error", Display(e))

\* create_chat_completion up to the provider call: validation, then the
\* environment's key
CreateChatCompletion ==
    /\ chat.pc = "idle"
    /\ \E req \in ChatRequests, env \in {None, Some(EnvKey)} :
          LET valid == Validate(req) IN
          IF ~valid.ok
          THEN chat' = [chat EXCEPT !.pc = "done", !.request = Some(req),
                           !.response = Some(ChatError(400, "invalid_request_error",
                                                       "invalid_request", valid.msg))]
          ELSE IF env = None
          THEN chat' = [chat EXCEPT !.pc = "done", !.request = Some(req),
                           !.response = Some(ChatError(500, "configuration_error",
                                 "missing_api_key", <<"OpenAI API key not configured">>))]
          ELSE chat' = [chat EXCEPT !.pc = "provider", !.request = Some(req),
                           !.api_key = env]
    /\ UNCHANGED <<auth_vars, transcribe_vars, fn_call>>

\* the provider call returns and the handler answers
ChatProviderReturns ==
    /\ chat.pc = "provider"
    /\ \E answer \in UpstreamAnswers :
          LET result == ChatCompletion(answer) IN
          chat' = [chat EXCEPT
                     !.pc = "done",
                     !.upstream = Some(answer),
                     !.response = IF result.ok
                                  THEN Some(ChatError(200, "chat.completion", "OK", <<result.val>>))
                                  ELSE Some(Classify(result))]
    /\ UNCHANGED <<auth_vars, transcribe_vars, fn_call>>

ChatNext == CreateChatCompletion \/ ChatProviderReturns

\* both endpoints: one chat request beside one transcription request
GatewayInit ==
    /\ AuthQuiet
    /\ TranscribeQuiet
    /\ ChatQuiet
    /\ FnQuiet

GatewayNext ==
    \/ ChatNext
    \/ TranscribeAudio(1)
    \/ ResolveDefault(1)
    \/ ResolveKey(1)
    \/ ProviderReturns(1)
    \/ LogTaskRuns(1)
    \/ \E k \in {K1, K2} : MarkUsedRuns(k)
    \/ Cancel(1)

GatewaySpec == GatewayInit /\ [][GatewayNext]_vars

\* the codes a re-classified upstream failure is answered with
Reclassified == {"invalid_api_key", "rate_limit_exceeded", "invalid_request"}

\* the chat request was answered after the upstream refused it with a
\* non-success status
ChatRefused ==
    /\ chat.pc = "done"
    /\ IsSome(chat.upstream)
    /\ Get(chat.upstream).sent
    /\ ~IsSuccess(Get(chat.upstream).status)

\* the transcription requests answered after the provider call failed
TranscribeRefused == {r \in ProviderFailed : requests[r].pc = "done"}

\* C19: on both endpoints an upstream failure is wrapped as ExternalApiError
\* and, unless it is answered with one of the re-classified codes, it is
\* answered with HTTP 502.
C19_UnclassifiedAnswered502 ==
    /\ ChatRefused =>
          /\ ChatCompletion(Get(chat.upstream)).kind = "ExternalApiError"
          /\ Get(chat.response).code \notin Reclassified =>
                Get(chat.response).status = 502
    /\ \A r \in TranscribeRefused :
          Get(requests[r].response).code \notin Reclassified =>
              Get(requests[r].response).status = 502

\* the code the order "401", then "429", then "400" selects for a text
ByStatusToken(text) ==
    IF Contains(text, T401) THEN <<401, "invalid_api_key">>
    ELSE IF Contains(text, T429) THEN <<429, "rate_limit_exceeded">>
    ELSE IF Contains(text, T400) THEN <<400, "invalid_request">>
    ELSE <<0, "unclassified">>

\* the answer is the one the text selects
AnsweredByText(answered, text) ==
    IF ByStatusToken(text)[2] = "unclassified"
    THEN answered.code \notin Reclassified
    ELSE <<answered.status, answered.code>> = ByStatusToken(text)

\* C20 as stated: on both endpoints the answer to an upstream failure is
\* selected by the first of "401", "429", "400" its text contains.
C20_ThreeTokensBothEndpoints ==
    /\ ChatRefused =>
          AnsweredByText(Get(chat.response), ChatCompletion(Get(chat.upstream)).msg)
    /\ \A r \in TranscribeRefused :
          AnsweredByText(Get(requests[r].response), Get(requests[r].response).message)

\* C20: the chat handler classifies an upstream failure by its text alone,
\* first match wins: "401" or "authentication" selects invalid_api_key (401),
\* otherwise "429" or "rate_limit" selects rate_limit_exceeded (429),
\* otherwise "400" selects invalid_request (400), otherwise the failure is
\* not re-classified.  The transcription handler never re-classifies: a
\* provider failure is answered as EXTERNAL_API_ERROR whatever its text.
C20_ChatClassifiesByText ==
    /\ chat.pc = "done" /\ IsSome(chat.upstream)
         /\ ~ChatCompletion(Get(chat.upstream)).ok =>
          LET text == ChatCompletion(Get(chat.upstream)).msg
              answered == Get(chat.response)
              answer == <<answered.status, answered.code>>
          IN  IF Contains(text, T401) \/ Contains(text, TAuthentication)
              THEN answer = <<401, "invalid_api_key">>
              ELSE IF Contains(text, T429) \/ Contains(text, TRateLimit)
              THEN answer = <<429, "rate_limit_exceeded">>
              ELSE IF Contains(text, T400)
              THEN answer = <<400, "invalid_request">>
              ELSE answered.code \notin Reclassified
    /\ \A r \in TranscribeRefused :
          /\ Get(requests[r].response).code = "EXTERNAL_API_ERROR"
          /\ Get(requests[r].response).code \notin Reclassified

\* the upstream answered 429 with a body that speaks of authentication and
\* the chat handler answered invalid_api_key, while a transcription whose
\* upstream failure text holds "401" was answered as EXTERNAL_API_ERROR
C20_Witness ==
    /\ ChatRefused
    /\ Get(chat.upstream).status = 429
    /\ Get(chat.upstream).body = TAuthentication
    /\ ~Contains(ChatCompletion(Get(chat.upstream)).msg, T401)
    /\ Get(chat.response).code = "invalid_api_key"
    /\ \E r \in TranscribeRefused :
          /\ Contains(Get(requests[r].response).message, T401)
          /\ Get(requests[r].response).code = "EXTERNAL_API_ERROR"

\* the constraints on a chat request, in tenths
WellFormed(req) ==
    /\ req.messages > 0
    /\ req.model # ""
    /\ 0 <= req.temperature /\ req.temperature <= 20
    /\ 0 <= req.top_p /\ req.top_p <= 10
    /\ -20 <= req.frequency_penalty /\ req.frequency_penalty <= 20
    /\ -20 <= req.presence_penalty /\ req.presence_penalty <= 20

\* the chat request was handed to the provider
ChatForwarded == chat.pc = "provider" \/ IsSome(chat.upstream) \/ IsSome(chat.api_key)

\* C21 as stated: a chat request that breaks a constraint is answered 400
\* with code invalid_request_error and is never forwarded; a forwarded
\* request meets every constraint.
C21_RejectedWithCodeInvalidRequestError ==
    IsSome(chat.request) =>
        /\ ~WellFormed(Get(chat.request)) =>
              /\ chat.pc = "done"
              /\ Get(chat.response).status = 400
              /\ Get(chat.response).code = "invalid_request_error"
              /\ ~ChatForwarded
        /\ ChatForwarded => WellFormed(Get(chat.request))

\* C21: a chat request with no messages, an empty model, temperature outside
\* [0,2], top_p outside [0,1] or a penalty outside [-2,2] is answered 400
\* with type invalid_request_error and code invalid_request, and no upstream
\* request is issued for it; a request is forwarded only if it meets every
\* constraint.
C21_ValidationBeforeCall ==
    IsSome(chat.request) =>
        /\ ~WellFormed(Get(chat.request)) =>
              /\ chat.pc = "done"
              /\ Get(chat.response).status = 400
              /\ Get(chat.response).type = "invalid_request_error"
              /\ Get(chat.response).code = "invalid_request"
              /\ ~ChatForwarded
        /\ ChatForwarded => WellFormed(Get(chat.request))

\* temperature 3.0 was rejected without an upstream call
C21_Witness ==
    /\ chat.pc = "done"
    /\ IsSome(chat.request)
    /\ Get(chat.request) = ChatCompletionRequest(1, "gpt-4", 30, 10, 0, 0)
    /\ Get(chat.response).status = 400
    /\ chat.upstream = None

\* ------------------------------------------------------------ uploads
\* one transcription request of a project whose ceiling is any of
\* ProjectLimits
UploadInit ==
    /\ AuthQuiet
    /\ llm_api_keys \in LlmKeyStores
    /\ llm_api_keys[1].is_active /\ llm_api_keys[1].is_default
    /\ transcription_history = <<>>
    /\ requests = [r \in Requests |-> IdleRequest]
    /\ mark_used_tasks = [k \in {K1, K2} |-> 0]
    /\ max_file_size_mb \in ProjectLimits
    /\ ChatQuiet
    /\ FnQuiet

UploadNext ==
    \/ TranscribeAudio(1)
    \/ ResolveDefault(1)
    \/ ResolveKey(1)
    \/ ProviderReturns(1)
    \/ LogTaskRuns(1)
    \/ \E k \in {K1, K2} : MarkUsedRuns(k)
    \/ Cancel(1)

UploadSpec == UploadInit /\ [][UploadNext]_vars

\* the upload of request r is in hand: the request has arrived and was not
\* dropped
Uploaded == {r \in Requests : requests[r].pc \notin {"idle", "cancelled"}}

\* C22: a transcription request whose file is larger than the project's
\* ceiling (more than max_file_size_mb * 1024 * 1024 bytes), or empty, is
\* answered 400 before credential resolution and before any provider call.
C22_OversizeRejectedFirst ==
    \A r \in Uploaded :
        LET req == requests[r] IN
        (req.file_size > max_file_size_mb * 1024 * 1024 \/ req.file_size = 0) =>
            /\ req.pc = "done"
            /\ Get(req.response).status = 400
            /\ req.key_id = None
            /\ req.trace = <<>>

\* C23: under the service's key, opening what encrypt sealed gives the
\* plaintext back, for every plaintext; and opening a text that is not
\* base64, decodes to fewer than 12 bytes, was sealed under another key or
\* was altered gives EncryptionError, never a plaintext.
C23_VaultRoundTrip ==
    IsSome(fn_call) =>
        LET call == Get(fn_call) IN
        /\ call.fn = "encrypt_decrypt" => call.output = Ok(call.input)
        /\ (/\ call.fn = "decrypt"
            /\ \/ ~call.input.b64
               \/ call.input.nonce < 12
               \/ call.input.key # VaultKey) =>
              /\ ~call.output.ok
              /\ call.output.kind = "EncryptionError"

\* a credential came back from the round trip
C23_Witness ==
    /\ IsSome(fn_call)
    /\ Get(fn_call).fn = "encrypt_decrypt"
    /\ Get(fn_call).input = "sk-1"
    /\ Get(fn_call).output = Ok("sk-1")

\* the price tiers, in ten-thousandths of a dollar per 1000 tokens
TierGpt4Turbo == <<100, 300>>
TierGpt4 == <<300, 600>>
TierGpt35Turbo == <<5, 15>>

\* the tier of a model name: the first prefix that matches
TierOf(model) ==
    IF StartsWith(model, GPT4Turbo) \/ StartsWith(model, GPT41106) THEN TierGpt4Turbo
    ELSE IF StartsWith(model, GPT4) THEN TierGpt4
    ELSE TierGpt35Turbo

\* C24: the cost of a chat completion is promptTokens/1000 * inputRate +
\* completionTokens/1000 * outputRate, with the rates of the first matching
\* prefix (gpt-4-turbo or gpt-4-1106 before gpt-4, then gpt-3.5-turbo); a
\* name no prefix matches gets the gpt-3.5-turbo rates, which are the
\* cheapest.  Costs are in ten-millionths of a dollar.
C24_ChatCost ==
    /\ \A t \in {TierGpt4Turbo, TierGpt4} :
          TierGpt35Turbo[1] <= t[1] /\ TierGpt35Turbo[2] <= t[2]
    /\ IsSome(fn_call) /\ Get(fn_call).fn = "calculate_openai_cost" =>
          LET model == Get(fn_call).input[1]
              promptTokens == Get(fn_call).input[2]
              completionTokens == Get(fn_call).input[3]
          IN  Get(fn_call).output =
                 promptTokens * TierOf(model)[1] + completionTokens * TierOf(model)[2]

\* gpt-4-turbo-preview is priced as gpt-4-turbo, not as gpt-4: 1000 prompt
\* and 500 completion tokens cost $0.025
C24_Witness ==
    /\ IsSome(fn_call)
    /\ Get(fn_call).fn = "calculate_openai_cost"
    /\ StartsWith(Get(fn_call).input[1], GPT4Turbo)
    /\ Get(fn_call).input[2] = 1000
    /\ Get(fn_call).input[3] = 500
    /\ Get(fn_call).output = 250000

\* C25: a request that fails on a database error is answered with an
\* opaque internal error: the body's message holds none of the driver's
\* error text, so two requests failing on different storage errors get the
\* same body.
C25_OpaqueDatabaseError ==
    (db_faults # {} /\ IsSome(response) /\ Get(response).code = "INTERNAL_ERROR") =>
        /\ Get(response).status = 500
        /\ \A i \in DOMAIN Get(response).message :
              Get(response).message[i] \notin DriverErrors

\* the secrets the vault holds for the authenticated project
VaultSecrets ==
    {Decrypt(llm_api_keys[i].encrypted_key).val :
        i \in {j \in DOMAIN llm_api_keys :
                  /\ llm_api_keys[j].project_id = AuthenticatedProject
                  /\ Decrypt(llm_api_keys[j].encrypted_key).ok}}

\* C26: a chat request calls the provider with a credential resolved from
\* the project's records in the vault, and a chat request answered with a
\* completion has spawned a usage-log write.
C26_ChatSameShape ==
    /\ IsSome(chat.api_key) => Get(chat.api_key) \in VaultSecrets
    /\ (chat.pc = "done" /\ Get(chat.response).status = 200) => chat.log # "none"

\* ------------------------------------------------------------ tenants
\* K1 is the authenticated project's OpenAI credential; K2 is the active
\* OpenAI credential of another project, sealed by the same vault
TenantStore ==
    <<LlmApiKey(K1, P1, Openai, Encrypt(SK1), TRUE, TRUE),
      LlmApiKey(K2, P2, Openai, Encrypt(SK2), TRUE, TRUE)>>

TenantInit ==
    /\ AuthQuiet
    /\ llm_api_keys = TenantStore
    /\ transcription_history = <<>>
    /\ requests = [r \in Requests |-> IdleRequest]
    /\ mark_used_tasks = [k \in {K1, K2} |-> 0]
    /\ max_file_size_mb = DefaultMaxFileSizeMb
    /\ ChatQuiet
    /\ FnQuiet

TenantSpec == TenantInit /\ [][TranscribeNext]_vars

\* the credential records of the authenticated project for the provider
\* transcription calls
OwnCredentials ==
    {i \in DOMAIN llm_api_keys :
        /\ llm_api_keys[i].project_id = AuthenticatedProject
        /\ llm_api_keys[i].provider = Openai}

\* C27: a transcription request that names a credential by id calls the
\* provider with that credential only if the credential belongs to the
\* authenticated project and to the provider called: the secret of another
\* project's key, or of another provider's, is never the one the call uses.
C27_TenantIsolation ==
    \A r \in Requests :
        LET req == requests[r] IN
        (IsSome(req.llm_api_key_id) /\ ProviderCalled(req) /\ IsSome(req.api_key)) =>
            \E i \in OwnCredentials :
                /\ llm_api_keys[i].key_id = Get(req.llm_api_key_id)
                /\ Decrypt(llm_api_keys[i].encrypted_key) = Ok(Get(req.api_key))

\* --------------------------------------------------------- deactivation
\* MongoLlmApiKeyRepository::deactivate
Deactivate(keys, key_id) ==
    [i \in DOMAIN keys |->
        IF keys[i].key_id = key_id THEN [keys[i] EXCEPT !.is_active = FALSE] ELSE keys[i]]

\* deactivate_key(k): the update is applied, or the driver fails and the
\* record stays as it was
DeactivateKey(k) ==
    /\ \/ llm_api_keys' = Deactivate(llm_api_keys, k)
       \/ UNCHANGED llm_api_keys
    /\ UNCHANGED <<transcription_history, requests, mark_used_tasks>>
    /\ UNCHANGED <<auth_vars, max_file_size_mb, chat, fn_call>>

\* transcription requests of a project whose default credential is active,
\* beside calls of deactivate_key
DeactivateInit ==
    /\ AuthQuiet
    /\ TranscribeQuiet
    /\ ChatQuiet
    /\ FnQuiet

\* K1 is the credential the requests can open; it is the one deactivated
DeactivateNext ==
    \/ TranscribeNext
    \/ DeactivateKey(K1)

DeactivateSpec == DeactivateInit /\ [][DeactivateNext]_vars

\* the record with this key id is inactive
Inactive(key_id) ==
    \E i \in DOMAIN llm_api_keys :
        llm_api_keys[i].key_id = key_id /\ ~llm_api_keys[i].is_active

\* request r read its credential by id in this step
ReadById(r) == requests[r].pc = "find_by_id" /\ requests'[r].pc \notin {"find_by_id", "cancelled"}

\* C28: a call that reads a credential by id while the record is inactive
\* gets no secret: it fails with AuthorizationError (or with the read's own
\* database error).  This holds for the read get_decrypted_key makes for an
\* explicit key id, for every call that starts after deactivate_key
\* completed, and for the second read of get_default_key_for_provider when
\* the default was deactivated after the default lookup found it.
C28_NoSecretOfInactiveKey ==
    [][\A r \in Requests :
          (ReadById(r) /\ Inactive(Get(requests[r].key_id))) =>
              /\ requests'[r].pc = "done"
              /\ requests'[r].api_key = None
              /\ ~ProviderCalled(requests'[r])
              /\ \/ /\ Get(requests'[r].response).status = 403
                    /\ Get(requests'[r].response).code = "AUTHORIZATION_ERROR"
                 \/ ReadFault(requests'[r])]_vars

\* the default credential was found by the default lookup and deactivated
\* before the read by id: the request was answered 403
C28_Witness ==
    \E r \in Requests :
        /\ requests[r].pc = "done"
        /\ requests[r].llm_api_key_id = None
        /\ requests[r].key_id = Some(K1)
        /\ Get(requests[r].response).status = 403
        /\ Get(requests[r].response).message = <<"Authorization error: ", "LLM API key is inactive">>
        /\ Inactive(K1)

\* a mark_used task of key k finishes in this step
MarkUsedRan(k) == mark_used_tasks'[k] < mark_used_tasks[k]

\* a mark_used task of key k is spawned in this step
MarkUsedSpawned(k) == mark_used_tasks'[k] > mark_used_tasks[k]

\* the record with key id k is active and the vault opens its secret
Usable(k) ==
    \E i \in DOMAIN llm_api_keys :
        /\ llm_api_keys[i].key_id = k
        /\ llm_api_keys[i].is_active
        /\ Decrypt(llm_api_keys[i].encrypted_key).ok

\* C29: a mark_used task is spawned only in a step that found the key
\* active and decrypted it; when it runs it changes nothing but the
\* last_used_at of its own key, so is_active, is_default and encrypted_key
\* stay as they were and a deactivated key stays deactivated; and whether
\* it succeeds or fails, no request's state or answer changes.
C29_MarkUsedFrame ==
    [][\A k \in {K1, K2} :
          /\ MarkUsedSpawned(k) =>
                /\ Usable(k)
                /\ \E r \in Requests :
                      /\ requests[r].key_id = Some(k)
                      /\ requests'[r].api_key # None
          /\ MarkUsedRan(k) =>
                /\ requests' = requests
                /\ DOMAIN llm_api_keys' = DOMAIN llm_api_keys
                /\ \A i \in DOMAIN llm_api_keys :
                      /\ llm_api_keys'[i] =
                            [llm_api_keys[i] EXCEPT !.last_used_at = llm_api_keys'[i].last_used_at]
                      /\ llm_api_keys[i].key_id # k => llm_api_keys'[i] = llm_api_keys[i]]_vars

\* K1 is deactivated and stamped, every mark_used task has run, and the
\* request that spawned the task holds its secret
C29_Witness ==
    /\ Inactive(K1)
    /\ \E i \in DOMAIN llm_api_keys :
          llm_api_keys[i].key_id = K1 /\ llm_api_keys[i].last_used_at # None
    /\ mark_used_tasks[K1] = 0
    /\ \E r \in Requests : requests[r].api_key = Some(SK1)

\* ------------------------------------------- side effects of authentication
\* the record of the collection that is the credential the token matched
MatchedRecord(keys) ==
    CHOOSE i \in DOMAIN keys : keys[i].id = Get(key_doc).id

\* every field of the record but last_used_at
SameButLastUsed(before, after) ==
    /\ after.id = before.id
    /\ after.project_id = before.project_id
    /\ after.key_hash = before.key_hash
    /\ after.key_prefix = before.key_prefix
    /\ after.is_active = before.is_active
    /\ after.expires_at = before.expires_at

\* a step of the gate that changes the collection of credentials
CredentialsChange == project_api_keys' # project_api_keys

\* C30: an authentication attempt changes the credential store only for a
\* token that matched: the step that changes it belongs to a request with a
\* matched credential, sets that credential's last_used_at to the time of
\* the match and changes no other field and no other record, and is taken
\* before the owning project is looked up or checked, so a request with no
\* match or a rejected header changes nothing; and a matched request whose
\* write succeeded carries the new last_used_at whatever the project then
\* decides, a rejection for a missing or inactive project included.
C30_AuthSideEffects ==
    /\ [][ CredentialsChange =>
             /\ IsSome(key_doc)
             /\ key_doc' = key_doc
             /\ pc = "mark_wait"
             /\ pc' = "find_project"
             /\ project = None /\ project' = None
             /\ response = None /\ response' = None
             /\ ~handler_ran /\ ~handler_ran'
             /\ DOMAIN project_api_keys' = DOMAIN project_api_keys
             /\ LET m == MatchedRecord(project_api_keys) IN
                /\ project_api_keys'[m].last_used_at = Some(last_used_write.at)
                /\ SameButLastUsed(project_api_keys[m], project_api_keys'[m])
                /\ \A i \in DOMAIN project_api_keys \ {m} :
                      project_api_keys'[i] = project_api_keys[i] ]_vars
    /\ []( (pc \in {"find_project", "handler", "done"}
            /\ IsSome(key_doc) /\ last_used_write.state = "ok") =>
              project_api_keys[MatchedRecord(project_api_keys)].last_used_at
                 = Some(last_used_write.at) )

C30_Witness ==
    /\ pc = "done"
    /\ IsSome(key_doc)
    /\ Rejected(403, "AUTHORIZATION_ERROR")
    /\ ~handler_ran
    /\ last_used_write.state = "ok"
    /\ project_api_keys[MatchedRecord(project_api_keys)].last_used_at
          = Some(last_used_write.at)
    /\ \E i \in DOMAIN project_api_keys : project_api_keys[i].last_used_at = None

====
